---- MODULE Spec2Model ----
(***************************************************************************)
(* Model of the SAGAlyze fairness / bias-audit engine (server/fairness.ts) *)
(* and of the server state around it.                                      *)
(*                                                                         *)
(* JavaScript numbers are modelled as exact fractions [n, d] in lowest     *)
(* terms; d = 0 encodes the non-finite values (n = 0: NaN, n = 1:          *)
(* Infinity, n = -1: -Infinity).  Counts and lengths are plain integers.   *)
(* A null column is the string NULL; "" is the empty string.               *)
(***************************************************************************)
EXTENDS Integers, Sequences, FiniteSets, Bags, TLC

VARIABLES records, metrics, disparity, predictions, confusion, brier, pc

VARIABLES analyses, fairnessAuditRuns, fairnessMetricRows, calc, reader, alertsResponse, clock

functionVars == <<records, metrics, disparity, predictions, confusion, brier, pc>>

auditVars ==
  <<analyses, fairnessAuditRuns, fairnessMetricRows, calc, reader, alertsResponse, clock>>

VARIABLES patients, portalAccessLogs, portalResponse, history, now

portalVars == <<patients, portalAccessLogs, portalResponse, history, now>>

VARIABLES updateResponse, tokenGen, registrations, pendingAnalysis
VARIABLES lesions, lesionAnalysis

requestVars ==
  <<updateResponse, tokenGen, registrations, pendingAnalysis, lesions, lesionAnalysis>>

serverVars == <<auditVars, portalVars, requestVars>>

vars == <<functionVars, serverVars>>

(***************************************************************************)
(* Bounds of the model.                                                    *)
(***************************************************************************)
MaxRecords == 2
MaxGroups == 2
MaxPredictions == 2

(***************************************************************************)
(* JavaScript number arithmetic.                                           *)
(***************************************************************************)
Abs(x) == IF x < 0 THEN -x ELSE x

Sign(x) == IF x < 0 THEN -1 ELSE IF x > 0 THEN 1 ELSE 0

RECURSIVE Gcd(_, _)
Gcd(a, b) == IF b = 0 THEN a ELSE Gcd(b, a % b)

Norm(n, d) ==
  IF d = 0 THEN [n |-> Sign(n), d |-> 0]
  ELSE LET g == Gcd(Abs(n), Abs(d))
       IN [n |-> Sign(d) * Sign(n) * (Abs(n) \div g), d |-> Abs(d) \div g]

I(k) == [n |-> k, d |-> 1]

NaN == [n |-> 0, d |-> 0]

IsNaN(x) == x.d = 0 /\ x.n = 0

NumAdd(a, b) == Norm(a.n * b.d + b.n * a.d, a.d * b.d)

NumSub(a, b) == Norm(a.n * b.d - b.n * a.d, a.d * b.d)

NumMul(a, b) == Norm(a.n * b.n, a.d * b.d)

NumDiv(a, b) == Norm(a.n * b.d, a.d * b.n)

NumGE(a, b) == ~IsNaN(a) /\ ~IsNaN(b) /\ a.n * b.d >= b.n * a.d

NumGT(a, b) == ~IsNaN(a) /\ ~IsNaN(b) /\ a.n * b.d > b.n * a.d

MathPow2(a) == NumMul(a, a)

RECURSIVE MathMaxFrom(_, _, _)
MathMaxFrom(xs, i, acc) ==
  IF i > Len(xs) THEN acc
  ELSE MathMaxFrom(xs, i + 1,
         IF IsNaN(acc) \/ IsNaN(xs[i]) THEN NaN
         ELSE IF NumGT(xs[i], acc) THEN xs[i] ELSE acc)

MathMaxFirst(xs) == xs[1]

MathMax(xs) == MathMaxFrom(xs, 1, [n |-> -1, d |-> 0])

RECURSIVE MathMinFrom(_, _, _)
MathMinFrom(xs, i, acc) ==
  IF i > Len(xs) THEN acc
  ELSE MathMinFrom(xs, i + 1,
         IF IsNaN(acc) \/ IsNaN(xs[i]) THEN NaN
         ELSE IF NumGT(acc, xs[i]) THEN xs[i] ELSE acc)

MathMinFromZero(xs) == MathMinFrom(xs, 1, I(0))

MathMin(xs) == MathMinFrom(xs, 1, [n |-> 1, d |-> 0])

(***************************************************************************)
(* Constants of fairness.ts.                                               *)
(***************************************************************************)
NULL == "<null>"

Falsy(s) == s = NULL \/ s = ""

POSITIVE_CLASSIFICATIONS == {"Malignant", "Infection"}

PARITY_THRESHOLD == Norm(15, 100)

OPPORTUNITY_THRESHOLD == Norm(15, 100)

CALIBRATION_THRESHOLD == Norm(10, 100)

isPositivePrediction(classification) == classification \in POSITIVE_CLASSIFICATIONS

isMalignantGroundTruth(groundTruth) == groundTruth = "Malignant"

isPositiveGroundTruth(groundTruth) == groundTruth \in POSITIVE_CLASSIFICATIONS

(***************************************************************************)
(* calculateConfusionMatrix: one pass of the if / else-if chain per        *)
(* record.                                                                 *)
(***************************************************************************)
ZeroMatrix ==
  [truePositives |-> 0, falsePositives |-> 0, trueNegatives |-> 0, falseNegatives |-> 0]

ConfusionStepNoFalseNegative(cm, p) ==
  LET predictedPositive == isPositivePrediction(p.classification)
      actualPositive == isPositiveGroundTruth(p.groundTruth)
  IN IF predictedPositive /\ actualPositive
       THEN [cm EXCEPT !.truePositives = @ + 1]
     ELSE IF predictedPositive /\ ~actualPositive
       THEN [cm EXCEPT !.falsePositives = @ + 1]
     ELSE IF ~predictedPositive /\ ~actualPositive
       THEN [cm EXCEPT !.trueNegatives = @ + 1]
     ELSE cm

ConfusionStep(cm, p) ==
  LET predictedPositive == isPositivePrediction(p.classification)
      actualPositive == isPositiveGroundTruth(p.groundTruth)
  IN IF predictedPositive /\ actualPositive
       THEN [cm EXCEPT !.truePositives = @ + 1]
     ELSE IF predictedPositive /\ ~actualPositive
       THEN [cm EXCEPT !.falsePositives = @ + 1]
     ELSE IF ~predictedPositive /\ ~actualPositive
       THEN [cm EXCEPT !.trueNegatives = @ + 1]
     ELSE IF ~predictedPositive /\ actualPositive
       THEN [cm EXCEPT !.falseNegatives = @ + 1]
     ELSE cm

RECURSIVE ConfusionLoop(_, _, _)
ConfusionLoop(preds, i, cm) ==
  IF i > Len(preds) THEN cm
  ELSE ConfusionLoop(preds, i + 1, ConfusionStep(cm, preds[i]))

calculateConfusionMatrix(preds) == ConfusionLoop(preds, 1, ZeroMatrix)

(***************************************************************************)
(* calculateBrierScore.                                                    *)
(***************************************************************************)
SquaredErrorPositiveOutcome(pred) ==
  LET predictedProb == NumDiv(I(pred.confidence), I(100))
      actualOutcome == IF isPositiveGroundTruth(pred.groundTruth) THEN 1 ELSE 0
  IN MathPow2(NumSub(predictedProb, I(actualOutcome)))

SquaredErrorPercent(pred) ==
  LET predictedProb == I(pred.confidence)
      actualOutcome == IF pred.classification = pred.groundTruth THEN 1 ELSE 0
  IN MathPow2(NumSub(predictedProb, I(actualOutcome)))

SquaredError(pred) ==
  LET predictedProb == NumDiv(I(pred.confidence), I(100))
      actualOutcome == IF pred.classification = pred.groundTruth THEN 1 ELSE 0
  IN MathPow2(NumSub(predictedProb, I(actualOutcome)))

RECURSIVE BrierLoop(_, _, _)
BrierLoop(preds, i, totalSquaredError) ==
  IF i > Len(preds) THEN totalSquaredError
  ELSE BrierLoop(preds, i + 1, NumAdd(totalSquaredError, SquaredError(preds[i])))

calculateBrierScore(preds) ==
  IF Len(preds) = 0 THEN I(0)
  ELSE NumDiv(BrierLoop(preds, 1, I(0)), I(Len(preds)))

(***************************************************************************)
(* calculateFairnessMetricsPerGroup.  The Map keyed by Fitzpatrick type is *)
(* a sequence of [key, items] entries in insertion order.                  *)
(***************************************************************************)
MapHas(map, key) == \E j \in DOMAIN map : map[j].key = key

MapPush(map, key, item) ==
  [j \in DOMAIN map |->
     IF map[j].key = key THEN [map[j] EXCEPT !.items = Append(@, item)] ELSE map[j]]

GroupStepDropMissingType(map, item) ==
  IF Falsy(item.analysis.groundTruthLabel) \/ Falsy(item.patient.fitzpatrickType) THEN map
  ELSE LET fitzType == item.patient.fitzpatrickType
           withKey == IF ~MapHas(map, fitzType)
                        THEN Append(map, [key |-> fitzType, items |-> <<>>])
                        ELSE map
       IN MapPush(withKey, fitzType, item)

GroupStepNullOnly(map, item) ==
  IF item.analysis.groundTruthLabel = NULL THEN map
  ELSE LET fitzType == IF Falsy(item.patient.fitzpatrickType)
                         THEN "Unknown" ELSE item.patient.fitzpatrickType
           withKey == IF ~MapHas(map, fitzType)
                        THEN Append(map, [key |-> fitzType, items |-> <<>>])
                        ELSE map
       IN MapPush(withKey, fitzType, item)

GroupStep(map, item) ==
  IF Falsy(item.analysis.groundTruthLabel) THEN map
  ELSE LET fitzType == IF Falsy(item.patient.fitzpatrickType)
                         THEN "Unknown" ELSE item.patient.fitzpatrickType
           withKey == IF ~MapHas(map, fitzType)
                        THEN Append(map, [key |-> fitzType, items |-> <<>>])
                        ELSE map
       IN MapPush(withKey, fitzType, item)

RECURSIVE GroupLoop(_, _, _)
GroupLoop(items, i, map) ==
  IF i > Len(items) THEN map
  ELSE GroupLoop(items, i + 1, GroupStep(map, items[i]))

groupedByFitzpatrick(analysesWithPatients) == GroupLoop(analysesWithPatients, 1, <<>>)

ToPrediction(item) ==
  [classification |-> item.analysis.classification,
   groundTruth |-> item.analysis.groundTruthLabel,
   confidence |-> item.analysis.confidence]

RECURSIVE SumConfidence(_, _, _)
SumConfidence(preds, i, sum) ==
  IF i > Len(preds) THEN sum
  ELSE SumConfidence(preds, i + 1, sum + preds[i].confidence)

RatioUnguarded(count, denominator) == NumDiv(I(count), I(denominator))

Ratio(count, denominator) ==
  IF denominator > 0 THEN NumDiv(I(count), I(denominator)) ELSE I(0)

F1Half(precision, recall) ==
  IF NumGT(NumAdd(precision, recall), I(0))
    THEN NumDiv(NumMul(precision, recall), NumAdd(precision, recall))
    ELSE I(0)

F1(precision, recall) ==
  IF NumGT(NumAdd(precision, recall), I(0))
    THEN NumDiv(NumMul(NumMul(I(2), precision), recall), NumAdd(precision, recall))
    ELSE I(0)

GroupMetrics(fitzpatrickType, items) ==
  LET preds == [j \in DOMAIN items |-> ToPrediction(items[j])]
      confusionMatrix == calculateConfusionMatrix(preds)
      truePositives == confusionMatrix.truePositives
      falsePositives == confusionMatrix.falsePositives
      trueNegatives == confusionMatrix.trueNegatives
      falseNegatives == confusionMatrix.falseNegatives
      totalPredictions == Len(items)
      positivePredictions ==
        Cardinality({j \in DOMAIN items : isPositivePrediction(items[j].analysis.classification)})
      positiveRate == Ratio(positivePredictions, totalPredictions)
      truePositiveRate == Ratio(truePositives, truePositives + falseNegatives)
      falsePositiveRate == Ratio(falsePositives, falsePositives + trueNegatives)
      precision == Ratio(truePositives, truePositives + falsePositives)
      recall == truePositiveRate
      f1Score == F1(precision, recall)
      brierScore == calculateBrierScore(preds)
      averageConfidence == NumDiv(I(SumConfidence(preds, 1, 0)), I(Len(preds)))
      correctPredictions ==
        Cardinality({j \in DOMAIN items :
                       items[j].analysis.classification = items[j].analysis.groundTruthLabel})
      accuracyAtConfidence == Ratio(correctPredictions, totalPredictions)
  IN [fitzpatrickType |-> fitzpatrickType,
      totalPredictions |-> totalPredictions,
      positivePredictions |-> positivePredictions,
      truePositives |-> truePositives,
      falsePositives |-> falsePositives,
      trueNegatives |-> trueNegatives,
      falseNegatives |-> falseNegatives,
      positiveRate |-> positiveRate,
      truePositiveRate |-> truePositiveRate,
      falsePositiveRate |-> falsePositiveRate,
      precision |-> precision,
      recall |-> recall,
      f1Score |-> f1Score,
      brierScore |-> brierScore,
      averageConfidence |-> averageConfidence,
      accuracyAtConfidence |-> accuracyAtConfidence]

calculateFairnessMetricsPerGroup(analysesWithPatients) ==
  LET map == groupedByFitzpatrick(analysesWithPatients)
  IN [j \in DOMAIN map |-> GroupMetrics(map[j].key, map[j].items)]

(***************************************************************************)
(* calculateDisparityMetrics.                                              *)
(***************************************************************************)
calculateDisparityMetrics(ms) ==
  IF Len(ms) = 0
    THEN [overallDisparityScore |-> I(0),
          demographicParityGap |-> I(0),
          equalOpportunityGap |-> I(0),
          calibrationGap |-> I(0),
          parityAlert |-> FALSE,
          opportunityAlert |-> FALSE,
          calibrationAlert |-> FALSE]
    ELSE
      LET positiveRates == [j \in DOMAIN ms |-> ms[j].positiveRate]
          truePositiveRates == [j \in DOMAIN ms |-> ms[j].truePositiveRate]
          brierScores == [j \in DOMAIN ms |-> ms[j].brierScore]
          demographicParityGap == NumSub(MathMax(positiveRates), MathMin(positiveRates))
          equalOpportunityGap == NumSub(MathMax(truePositiveRates), MathMin(truePositiveRates))
          calibrationGap == NumSub(MathMax(brierScores), MathMin(brierScores))
          overallDisparityScore ==
            NumDiv(NumAdd(NumAdd(demographicParityGap, equalOpportunityGap), calibrationGap),
                   I(3))
      IN [overallDisparityScore |-> overallDisparityScore,
          demographicParityGap |-> demographicParityGap,
          equalOpportunityGap |-> equalOpportunityGap,
          calibrationGap |-> calibrationGap,
          parityAlert |-> NumGT(demographicParityGap, PARITY_THRESHOLD),
          opportunityAlert |-> NumGT(equalOpportunityGap, OPPORTUNITY_THRESHOLD),
          calibrationAlert |-> NumGT(calibrationGap, CALIBRATION_THRESHOLD)]

(***************************************************************************)
(* Inputs.  Records come in two families so that the lists stay small:     *)
(* GroupingInputs varies labels, ground truth presence and Fitzpatrick     *)
(* type, CalibrationInputs varies the confidence.  The exported functions  *)
(* take any string as a label and any number as a confidence.              *)
(***************************************************************************)
GroupingInputs ==
  [analysis : [classification : {"Malignant", "Benign", "Mole"},
               groundTruthLabel : {NULL, "", "Malignant", "Benign"},
               confidence : {40}],
   patient : [fitzpatrickType : {NULL, "", "I", "II"}]]

CalibrationInputs ==
  [analysis : [classification : {"Malignant", "Benign"},
               groundTruthLabel : {"Malignant", "Benign"},
               confidence : {0, 40, 100, 150}],
   patient : [fitzpatrickType : {"I", "II"}]]

LabelPredictions ==
  [classification : {"Malignant", "Infection", "Benign", "Rash", "Mole"},
   groundTruth : {"Malignant", "Infection", "Benign", "Rash", "Mole"},
   confidence : {40}]

ConfidencePredictions ==
  [classification : {"Malignant", "Benign", "Mole"},
   groundTruth : {"Malignant", "Benign", "Mole"},
   confidence : {0, 40, 100, 150}]

MetricsInput(key, positiveRate, truePositiveRate, brierScore) ==
  [fitzpatrickType |-> key,
   totalPredictions |-> 0,
   positivePredictions |-> 0,
   truePositives |-> 0,
   falsePositives |-> 0,
   trueNegatives |-> 0,
   falseNegatives |-> 0,
   positiveRate |-> positiveRate,
   truePositiveRate |-> truePositiveRate,
   falsePositiveRate |-> I(0),
   precision |-> I(0),
   recall |-> truePositiveRate,
   f1Score |-> I(0),
   brierScore |-> brierScore,
   averageConfidence |-> I(0),
   accuracyAtConfidence |-> I(0)]

PositiveRateInputs == {Norm(1, 10), Norm(1, 4), Norm(2, 5)}

TruePositiveRateInputs == {Norm(1, 2), Norm(13, 20), I(1)}

BrierScoreInputs == {I(0), Norm(1, 10), Norm(1, 4)}

GroupKeys == <<"I", "II", "III", "IV", "V", "VI">>

RateInputs ==
  [positiveRate : PositiveRateInputs,
   truePositiveRate : TruePositiveRateInputs,
   brierScore : BrierScoreInputs]

NoDisparity == calculateDisparityMetrics(<<>>)

(***************************************************************************)
(* The server around the audit engine (server/routes.ts over               *)
(* server/storage.ts).  Tables are sequences in insertion order; an id is  *)
(* the position of its row.  A request handler is one action per database  *)
(* call it awaits, so that other requests run between its calls.  The      *)
(* clock counts days.  An analysis row carries the fitzpatrickType of the  *)
(* patient it joins to through its lesion; no route changes that column.   *)
(***************************************************************************)
MaxRuns == 2

AnalysisIds == 1..2

Days == {0, 31}

ClassificationInputs == {"Malignant", "Benign"}

FitzpatrickInputs == {"I", "II"}

LabelInputs == {"Malignant", "Mole", ""}

DaysBackInputs == {30}

validClassificationsAndMole == {"Benign", "Malignant", "Rash", "Infection", "Mole"}

validClassifications == {"Benign", "Malignant", "Rash", "Infection"}

Epoch == [day |-> 0, seq |-> 0]

NoCalc ==
  [pc |-> "idle", startDate |-> Epoch, endDate |-> Epoch, totalSamples |-> 0,
   analysesData |-> <<>>, auditRunId |-> 0, metricsPerGroup |-> <<>>]

CalcIdle(status) == [NoCalc EXCEPT !.pc = "idle"] @@ [status |-> status]

NoRun == [id |-> 0]

ReaderIdle(status, run, rows) ==
  [pc |-> "idle", status |-> status, auditRun |-> run, metrics |-> rows]

NoAlerts == [status |-> 0, alerts |-> <<>>, auditRun |-> NoRun]

AnalysisIdInputs == 0..3

GroundTruthLabelInputs ==
  {"Benign", "Malignant", "Rash", "Infection", "Mole", "malignant", ""}

GroundTruthSourceInputs == {"biopsy", ""}

NoUpdate == [status |-> 0, request |-> <<>>]

NoTokenGen == [pc |-> "idle", randomBytes |-> <<>>, token |-> <<>>, valid |-> FALSE]

UpdateIdle == updateResponse = NoUpdate

TokenGenIdle == tokenGen = NoTokenGen

RegistrationRequests == {1, 2}

NoRegistration ==
  [pc |-> "idle", body |-> <<>>, status |-> 0, message |-> ""]

RegistrationsIdle == registrations = [r \in RegistrationRequests |-> NoRegistration]

NoPending == [analyzedAt |-> NULL]

NoInsertPending == pendingAnalysis = NoPending

NoLesionAnalysis == [status |-> 0]

LesionAnalysisIdle == lesions = <<>> /\ lesionAnalysis = NoLesionAnalysis

RequestsIdle ==
  /\ UpdateIdle
  /\ TokenGenIdle
  /\ RegistrationsIdle
  /\ NoInsertPending
  /\ LesionAnalysisIdle

AuditIdle ==
  /\ analyses = <<>>
  /\ fairnessAuditRuns = <<>>
  /\ fairnessMetricRows = <<>>
  /\ calc = CalcIdle(0)
  /\ reader = ReaderIdle(0, NoRun, <<>>)
  /\ alertsResponse = NoAlerts
  /\ clock = 0


(* A time stamp is a day and, to order the stamps of one day, the number   *)
(* of analysis inserts that had started when it was taken.                 *)
TimeLE(a, b) == a.day < b.day \/ (a.day = b.day /\ a.seq <= b.seq)

InsertsStarted ==
  Len(analyses) + (IF pendingAnalysis = NoPending THEN 0 ELSE 1)

NewDate == [day |-> clock, seq |-> InsertsStarted]

defaultNow == [day |-> clock, seq |-> InsertsStarted + 1]

InWindow(row, startDate, endDate) ==
  TimeLE(startDate, row.analyzedAt) /\ TimeLE(row.analyzedAt, endDate)

RECURSIVE SelectWhere(_, _, _)
SelectWhere(rows, i, keep) ==
  IF i > Len(rows) THEN <<>>
  ELSE IF i \in keep THEN <<rows[i]>> \o SelectWhere(rows, i + 1, keep)
  ELSE SelectWhere(rows, i + 1, keep)

getAnalysesCountInDateRange(startDate, endDate) ==
  Cardinality({i \in DOMAIN analyses : InWindow(analyses[i], startDate, endDate)})

JoinPatient(row) ==
  [analysis |-> [classification |-> row.classification,
                 groundTruthLabel |-> row.groundTruthLabel,
                 confidence |-> row.confidence],
   patient |-> [fitzpatrickType |-> row.fitzpatrickType]]

getAnalysesWithGroundTruthAnyDate(startDate, endDate) ==
  LET kept == SelectWhere(analyses, 1,
                {i \in DOMAIN analyses : analyses[i].groundTruthLabel # NULL})
  IN  [i \in DOMAIN kept |-> JoinPatient(kept[i])]

getAnalysesWithGroundTruth(startDate, endDate) ==
  LET kept == SelectWhere(analyses, 1,
                {i \in DOMAIN analyses :
                   /\ analyses[i].groundTruthLabel # NULL
                   /\ InWindow(analyses[i], startDate, endDate)})
  IN  [i \in DOMAIN kept |-> JoinPatient(kept[i])]

getOldestFairnessAuditRun ==
  IF fairnessAuditRuns = <<>> THEN NoRun ELSE fairnessAuditRuns[1]

getLatestFairnessAuditRun ==
  IF fairnessAuditRuns = <<>> THEN NoRun
  ELSE fairnessAuditRuns[Len(fairnessAuditRuns)]

getFairnessMetricsByAuditRunId(id) ==
  SelectWhere(fairnessMetricRows, 1,
    {i \in DOMAIN fairnessMetricRows : fairnessMetricRows[i].auditRunId = id})

AlertEntry(type, gap) == [type |-> type, gap |-> gap]

AlertsOf(run) ==
  (IF run.parityAlert
     THEN <<AlertEntry("demographic_parity", run.demographicParityGap)>>
     ELSE <<>>)
  \o (IF run.opportunityAlert
        THEN <<AlertEntry("equal_opportunity", run.equalOpportunityGap)>>
        ELSE <<>>)
  \o (IF run.calibrationAlert
        THEN <<AlertEntry("calibration", run.calibrationGap)>>
        ELSE <<>>)

(* POST /api/analyze-lesion: the row it inserts into analyses. *)
CreateAnalysis ==
  /\ Len(analyses) + 1 \in AnalysisIds
  /\ \E classification \in ClassificationInputs, fitz \in FitzpatrickInputs :
        analyses' = Append(analyses,
          [classification |-> classification,
           confidence |-> 40,
           groundTruthLabel |-> NULL,
           groundTruthSource |-> NULL,
           fitzpatrickType |-> fitz,
           analyzedAt |-> defaultNow])
  /\ UNCHANGED <<fairnessAuditRuns, fairnessMetricRows, calc, reader,
                 alertsResponse, clock>>

(* POST /api/fairness/update-ground-truth: its status and the analyses    *)
(* table it leaves.  The analysis id 0 stands for a missing id.  The       *)
(* column groundTruthRecordedAt is not modelled.                           *)
updateGroundTruth(analysisId, groundTruthLabel, groundTruthSource) ==
  IF analysisId = 0 \/ Falsy(groundTruthLabel) \/ Falsy(groundTruthSource)
  THEN [status |-> 400, analyses |-> analyses]
  ELSE IF groundTruthLabel \notin validClassifications
  THEN [status |-> 400, analyses |-> analyses]
  ELSE IF analysisId \notin DOMAIN analyses
  THEN [status |-> 404, analyses |-> analyses]
  ELSE [status |-> 200,
        analyses |-> [analyses EXCEPT
                        ![analysisId].groundTruthLabel = groundTruthLabel,
                        ![analysisId].groundTruthSource = groundTruthSource]]

(* ... as the audit sees it: the answer is not kept. *)
UpdateGroundTruth ==
  /\ \E analysisId \in AnalysisIds, label \in LabelInputs :
        analyses' = updateGroundTruth(analysisId, label, "biopsy").analyses
  /\ UNCHANGED <<fairnessAuditRuns, fairnessMetricRows, calc, reader,
                 alertsResponse, clock>>

(* ... with its answer. *)
AnswerUpdateGroundTruth ==
  /\ \E analysisId \in AnalysisIdInputs, label \in GroundTruthLabelInputs,
        source \in GroundTruthSourceInputs :
        LET result == updateGroundTruth(analysisId, label, source)
        IN  /\ analyses' = result.analyses
            /\ updateResponse' =
                  [status |-> result.status,
                   request |-> [analysisId |-> analysisId,
                                groundTruthLabel |-> label,
                                groundTruthSource |-> source]]
  /\ UNCHANGED <<fairnessAuditRuns, fairnessMetricRows, calc, reader,
                 alertsResponse, clock>>

(* POST /api/fairness/calculate up to its first await. *)
CalcCount ==
  /\ calc.pc = "idle"
  /\ Len(fairnessAuditRuns) < MaxRuns
  /\ \E daysBack \in DaysBackInputs :
        LET endDate == NewDate
            startDate == [endDate EXCEPT !.day = @ - daysBack]
        IN  calc' = [NoCalc EXCEPT
                       !.pc = "counted",
                       !.startDate = startDate,
                       !.endDate = endDate,
                       !.totalSamples =
                          getAnalysesCountInDateRange(startDate, endDate)]
                    @@ [status |-> 0]
  /\ UNCHANGED <<analyses, fairnessAuditRuns, fairnessMetricRows, reader,
                 alertsResponse, clock>>

(* ... its second await, and the 400 on an empty result. *)
CalcFetch ==
  /\ calc.pc = "counted"
  /\ LET analysesData == getAnalysesWithGroundTruth(calc.startDate, calc.endDate)
     IN  IF Len(analysesData) = 0
         THEN calc' = CalcIdle(400)
         ELSE calc' = [calc EXCEPT !.pc = "fetched",
                                   !.analysesData = analysesData]
  /\ UNCHANGED <<analyses, fairnessAuditRuns, fairnessMetricRows, reader,
                 alertsResponse, clock>>

(* ... the computation and the insert of the audit run. *)
CalcCreateRun ==
  /\ calc.pc = "fetched"
  /\ LET metricsPerGroup == calculateFairnessMetricsPerGroup(calc.analysesData)
         disparityMetrics == calculateDisparityMetrics(metricsPerGroup)
         id == Len(fairnessAuditRuns) + 1
     IN  /\ fairnessAuditRuns' = Append(fairnessAuditRuns,
              [id |-> id,
               startDate |-> calc.startDate,
               endDate |-> calc.endDate,
               totalSamples |-> calc.totalSamples,
               samplesWithGroundTruth |-> Len(calc.analysesData),
               overallDisparityScore |-> disparityMetrics.overallDisparityScore,
               demographicParityGap |-> disparityMetrics.demographicParityGap,
               equalOpportunityGap |-> disparityMetrics.equalOpportunityGap,
               calibrationGap |-> disparityMetrics.calibrationGap,
               parityAlert |-> disparityMetrics.parityAlert,
               opportunityAlert |-> disparityMetrics.opportunityAlert,
               calibrationAlert |-> disparityMetrics.calibrationAlert,
               runAt |-> clock])
         /\ calc' = [calc EXCEPT !.pc = "runCreated",
                                 !.auditRunId = id,
                                 !.metricsPerGroup = metricsPerGroup]
  /\ UNCHANGED <<analyses, fairnessMetricRows, reader, alertsResponse, clock>>

(* ... the insert of the metric rows and the response. *)
CalcCreateMetrics ==
  /\ calc.pc = "runCreated"
  /\ fairnessMetricRows' = fairnessMetricRows \o
        [i \in DOMAIN calc.metricsPerGroup |->
           calc.metricsPerGroup[i] @@ [auditRunId |-> calc.auditRunId]]
  /\ calc' = CalcIdle(200)
  /\ UNCHANGED <<analyses, fairnessAuditRuns, reader, alertsResponse, clock>>

(* ... or the insert throws and the catch block answers 500. *)
CalcCreateMetricsFail ==
  /\ calc.pc = "runCreated"
  /\ calc' = CalcIdle(500)
  /\ UNCHANGED <<analyses, fairnessAuditRuns, fairnessMetricRows, reader,
                 alertsResponse, clock>>

(* GET /api/fairness/audit-runs/:id up to its first await. *)
ReaderFindRun ==
  /\ reader.pc = "idle"
  /\ \E id \in 1..MaxRuns :
        IF id \in DOMAIN fairnessAuditRuns
        THEN reader' = [pc |-> "found", status |-> 0,
                        auditRun |-> fairnessAuditRuns[id], metrics |-> <<>>]
        ELSE reader' = ReaderIdle(404, NoRun, <<>>)
  /\ UNCHANGED <<analyses, fairnessAuditRuns, fairnessMetricRows, calc,
                 alertsResponse, clock>>

(* ... its second await and the response. *)
ReaderGetMetrics ==
  /\ reader.pc = "found"
  /\ reader' = ReaderIdle(200, reader.auditRun,
                          getFairnessMetricsByAuditRunId(reader.auditRun.id))
  /\ UNCHANGED <<analyses, fairnessAuditRuns, fairnessMetricRows, calc,
                 alertsResponse, clock>>

(* GET /api/fairness/alerts. *)
GetAlerts ==
  /\ LET latestRun == getLatestFairnessAuditRun
     IN  alertsResponse' =
           IF latestRun = NoRun
           THEN [status |-> 200, alerts |-> <<>>, auditRun |-> NoRun]
           ELSE [status |-> 200, alerts |-> AlertsOf(latestRun),
                 auditRun |-> latestRun]
  /\ UNCHANGED <<analyses, fairnessAuditRuns, fairnessMetricRows, calc,
                 reader, clock>>

Tick ==
  /\ \E day \in Days : day > clock /\ clock' = day
  /\ UNCHANGED <<analyses, fairnessAuditRuns, fairnessMetricRows, calc,
                 reader, alertsResponse>>

(***************************************************************************)
(* The patient portal (server/routes.ts, server/token-utils.ts).  A token  *)
(* is the sequence of its characters.  The keyed hash and the salted hash  *)
(* of a token are records that name the token: distinct tokens have        *)
(* distinct hashes.  The access log is a bag of entries.  now counts       *)
(* minutes.  history records, for the properties, which requests were      *)
(* served: the number of verification requests, the number of token        *)
(* lookups of verify-token per minute, the tokens verify-token accepted    *)
(* and the tokens verify-patient accepted after that.                      *)
(***************************************************************************)
MaxRequests == 2

MaxAttempts == 12

RateLimitMinutes == 15

RateLimitAttempts == 10

Minutes == {0, 16}

IpInputs == {"10.0.0.1", "10.0.0.2"}

TokenAlphabet ==
  {"A", "B", "C", "D", "E", "F", "G", "H", "I", "J", "K", "L", "M",
   "N", "O", "P", "Q", "R", "S", "T", "U", "V", "W", "X", "Y", "Z",
   "2", "3", "4", "5", "6", "7", "8", "9"}

FirstToken == <<"A", "B", "C", "D", "-", "2", "3", "4", "5", "-", "W", "X", "Y", "Z">>

SecondToken == <<"Q", "R", "S", "T", "-", "6", "7", "8", "9", "-", "E", "F", "G", "H">>

UnknownToken == <<"Z", "Z", "Z", "Z", "-", "9", "9", "9", "9", "-", "Z", "Z", "Z", "Z">>

MalformedToken == <<"a", "b", "c", "d", "-", "1", "0", "1", "0">>

EmptyToken == <<>>

TokenInputs == {FirstToken, UnknownToken, MalformedToken, EmptyToken}

PatientTokenInputs == {FirstToken, SecondToken, UnknownToken, EmptyToken}

IdentityInputs ==
  {[patientId |-> "P-1", name |-> "Ann", dateOfBirth |-> "1990-01-01"],
   [patientId |-> "P-1", name |-> "ANN", dateOfBirth |-> "1990-01-01"],
   [patientId |-> "P-1", name |-> "Bob", dateOfBirth |-> "1990-01-01"],
   [patientId |-> "P-2", name |-> "Ann", dateOfBirth |-> "1990-01-01"],
   [patientId |-> "P-1", name |-> "Ann", dateOfBirth |-> "1985-05-05"],
   [patientId |-> "P-2", name |-> "", dateOfBirth |-> "1985-05-05"]}

Roster ==
  <<[id |-> "patient-1", patientId |-> "P-1", name |-> "Ann",
     dateOfBirth |-> "1990-01-01", fitzpatrickType |-> "I", token |-> FirstToken],
    [id |-> "patient-2", patientId |-> "P-2", name |-> "",
     dateOfBirth |-> "1985-05-05", fitzpatrickType |-> NULL, token |-> SecondToken]>>

NoPatient == [id |-> NULL]

KeepCase(s) == s

toLowerCase(s) ==
  CASE s = "Ann" -> "ann"
    [] s = "ANN" -> "ann"
    [] s = "Bob" -> "bob"
    [] OTHER -> s

createTokenLookupHash(token) == [hmac |-> token]

hashAccessToken(token) == [bcrypt |-> token]

verifyAccessToken(plainToken, hashedToken) == hashedToken = hashAccessToken(plainToken)

isValidTokenFormat(token) ==
  /\ Len(token) = 14
  /\ \A i \in 1..14 :
        IF i \in {5, 10} THEN token[i] = "-" ELSE token[i] \in TokenAlphabet

Substring(s, from, to) ==
  SubSeq(s, from + 1, IF to < Len(s) THEN to ELSE Len(s))

AttemptedToken(token) == Substring(token, 0, 4) \o <<"*", "*", "*">>

NoResponse == [endpoint |-> "none", request |-> <<>>, status |-> 0, body |-> <<>>]

NoHistory ==
  [requests |-> 0,
   lookups |-> [m \in Minutes |-> 0],
   tokenVerified |-> {},
   patientVerified |-> {}]

PortalIdle ==
  /\ patients = <<>>
  /\ portalAccessLogs = EmptyBag
  /\ portalResponse = NoResponse
  /\ history = NoHistory
  /\ now = 0

ServerIdle == AuditIdle /\ PortalIdle /\ RequestsIdle

FunctionsIdle ==
  /\ records = <<>>
  /\ metrics = <<>>
  /\ disparity = NoDisparity
  /\ predictions = <<>>
  /\ confusion = ZeroMatrix
  /\ brier = I(0)
  /\ pc = "server"

InitAudit == FunctionsIdle /\ ServerIdle

NextAudit ==
  /\ \/ CreateAnalysis
     \/ UpdateGroundTruth
     \/ CalcCount
     \/ CalcFetch
     \/ CalcCreateRun
     \/ CalcCreateMetrics
     \/ CalcCreateMetricsFail
     \/ Tick
  /\ UNCHANGED <<functionVars, portalVars, requestVars>>

SpecAudit == InitAudit /\ [][NextAudit]_vars

(* The audit requests next to readers of GET /api/fairness/audit-runs/:id. *)
NextReader ==
  /\ \/ CreateAnalysis
     \/ UpdateGroundTruth
     \/ CalcCount
     \/ CalcFetch
     \/ CalcCreateRun
     \/ CalcCreateMetrics
     \/ CalcCreateMetricsFail
     \/ ReaderFindRun
     \/ ReaderGetMetrics
  /\ UNCHANGED <<functionVars, portalVars, requestVars>>

SpecReader == InitAudit /\ [][NextReader]_vars

(* The audit requests next to GET /api/fairness/alerts. *)
NextAlerts ==
  /\ \/ CreateAnalysis
     \/ UpdateGroundTruth
     \/ CalcCount
     \/ CalcFetch
     \/ CalcCreateRun
     \/ CalcCreateMetrics
     \/ CalcCreateMetricsFail
     \/ GetAlerts
  /\ UNCHANGED <<functionVars, portalVars, requestVars>>

SpecAlerts == InitAudit /\ [][NextAlerts]_vars

(* New analyses and ground-truth updates with their answers. *)
NextGroundTruth ==
  /\ \/ CreateAnalysis /\ UNCHANGED updateResponse
     \/ AnswerUpdateGroundTruth
  /\ UNCHANGED <<functionVars, portalVars, tokenGen, registrations, pendingAnalysis,
                 lesions, lesionAnalysis>>

SpecGroundTruth == InitAudit /\ [][NextGroundTruth]_vars

(***************************************************************************)
(* The audit next to inserts that are in flight.  The column analyzedAt    *)
(* defaults to the database's now(), which is taken when the insert        *)
(* statement starts; the row is visible to the queries of other requests   *)
(* only once the statement has committed.                                  *)
(***************************************************************************)
BeginCreateAnalysis ==
  /\ pendingAnalysis = NoPending
  /\ Len(analyses) + 1 \in AnalysisIds
  /\ \E classification \in ClassificationInputs, fitz \in FitzpatrickInputs :
        pendingAnalysis' =
          [classification |-> classification,
           confidence |-> 40,
           groundTruthLabel |-> NULL,
           groundTruthSource |-> NULL,
           fitzpatrickType |-> fitz,
           analyzedAt |-> defaultNow]
  /\ UNCHANGED <<auditVars, updateResponse, tokenGen, registrations, lesions,
                 lesionAnalysis>>

CommitCreateAnalysis ==
  /\ pendingAnalysis # NoPending
  /\ analyses' = Append(analyses, pendingAnalysis)
  /\ pendingAnalysis' = NoPending
  /\ UNCHANGED <<fairnessAuditRuns, fairnessMetricRows, calc, reader,
                 alertsResponse, clock>>
  /\ UNCHANGED <<updateResponse, tokenGen, registrations, lesions, lesionAnalysis>>

NextSamples ==
  /\ \/ BeginCreateAnalysis
     \/ CommitCreateAnalysis
     \/ /\ \/ UpdateGroundTruth
           \/ CalcCount
           \/ CalcFetch
           \/ CalcCreateRun
           \/ CalcCreateMetrics
           \/ CalcCreateMetricsFail
           \/ Tick
        /\ UNCHANGED requestVars
  /\ UNCHANGED <<functionVars, portalVars>>

SpecSamples == InitAudit /\ [][NextSamples]_vars

getPatientByTokenLookupHash(lookupHash) ==
  IF \E i \in DOMAIN patients : patients[i].tokenLookupHash = lookupHash
  THEN patients[CHOOSE i \in DOMAIN patients : patients[i].tokenLookupHash = lookupHash]
  ELSE NoPatient

getRecentPortalAccessAttempts(minutesAgo, ipAddress) ==
  LET recent == {e \in BagToSet(portalAccessLogs) :
                   e.createdAt >= now - minutesAgo /\ e.ipAddress = ipAddress}
  IN  BagCardinality([e \in recent |-> portalAccessLogs[e]])

createPortalAccessLog(insertLog) ==
  portalAccessLogs' = portalAccessLogs (+) SetToBag({insertLog @@ [createdAt |-> now]})

Served(endpoint, request, status, body) ==
  portalResponse' = [endpoint |-> endpoint, request |-> request,
                     status |-> status, body |-> body]

TokenLog(token, ipAddress, failureReason, patientId) ==
  [attemptedToken |-> AttemptedToken(token),
   success |-> FALSE,
   failureReason |-> failureReason,
   ipAddress |-> ipAddress,
   attemptedPatientId |-> NULL,
   attemptedName |-> NULL,
   patientId |-> patientId]

PatientLog(token, ipAddress, patientId, name, success, failureReason, id) ==
  [attemptedToken |-> AttemptedToken(token),
   attemptedPatientId |-> patientId,
   attemptedName |-> name,
   success |-> success,
   failureReason |-> failureReason,
   ipAddress |-> ipAddress,
   patientId |-> id]

(* POST /api/patients with the next entry of the roster. *)
RegisterPatient ==
  /\ Len(patients) < Len(Roster)
  /\ LET entry == Roster[Len(patients) + 1]
     IN  patients' = Append(patients,
           [id |-> entry.id,
            patientId |-> entry.patientId,
            name |-> entry.name,
            dateOfBirth |-> entry.dateOfBirth,
            fitzpatrickType |-> entry.fitzpatrickType,
            accessToken |-> hashAccessToken(entry.token),
            tokenLookupHash |-> createTokenLookupHash(entry.token)])
  /\ UNCHANGED <<portalAccessLogs, portalResponse, history, now>>

(* POST /api/patient-portal/verify-token. *)
VerifyToken(ipAddress, token) ==
  LET request == [token |-> token, ipAddress |-> ipAddress]
      recentAttempts == getRecentPortalAccessAttempts(RateLimitMinutes, ipAddress)
      patient == getPatientByTokenLookupHash(createTokenLookupHash(token))
      counted == [history EXCEPT !.requests = @ + 1]
      lookedUp == [counted EXCEPT !.lookups[now] = @ + 1]
  IN  /\ UNCHANGED <<patients, now>>
      /\ IF recentAttempts > RateLimitAttempts
         THEN /\ createPortalAccessLog(
                   TokenLog(token, ipAddress, "rate_limit_exceeded", NULL))
              /\ Served("verify-token", request, 429, <<>>)
              /\ history' = counted
         ELSE IF Len(token) = 0 \/ ~isValidTokenFormat(token)
         THEN /\ createPortalAccessLog(
                   TokenLog(token, ipAddress, "invalid_token_format", NULL))
              /\ Served("verify-token", request, 400, <<>>)
              /\ history' = counted
         ELSE IF patient = NoPatient
         THEN /\ createPortalAccessLog(
                   TokenLog(token, ipAddress, "token_not_found", NULL))
              /\ Served("verify-token", request, 401, <<>>)
              /\ history' = lookedUp
         ELSE IF ~verifyAccessToken(token, patient.accessToken)
         THEN /\ createPortalAccessLog(
                   TokenLog(token, ipAddress, "token_verification_failed", patient.id))
              /\ Served("verify-token", request, 401, <<>>)
              /\ history' = lookedUp
         ELSE /\ Served("verify-token", request, 200, [tokenValid |-> TRUE])
              /\ history' = [lookedUp EXCEPT !.tokenVerified = @ \cup {token}]
              /\ UNCHANGED portalAccessLogs

(* POST /api/patient-portal/verify-patient. *)
VerifyPatient(ipAddress, token, patientId, name, dateOfBirth) ==
  LET request == [token |-> token, patientId |-> patientId, name |-> name,
                  dateOfBirth |-> dateOfBirth, ipAddress |-> ipAddress]
      patient == getPatientByTokenLookupHash(createTokenLookupHash(token))
      counted == [history EXCEPT !.requests = @ + 1]
  IN  /\ UNCHANGED <<patients, now>>
      /\ IF Len(token) = 0 \/ Falsy(patientId) \/ Falsy(name) \/ Falsy(dateOfBirth)
         THEN /\ Served("verify-patient", request, 400, <<>>)
              /\ history' = counted
              /\ UNCHANGED portalAccessLogs
         ELSE IF patient = NoPatient
         THEN /\ createPortalAccessLog(
                   PatientLog(token, ipAddress, patientId, name, FALSE,
                              "token_not_found", NULL))
              /\ Served("verify-patient", request, 401, <<>>)
              /\ history' = counted
         ELSE IF ~verifyAccessToken(token, patient.accessToken)
         THEN /\ createPortalAccessLog(
                   PatientLog(token, ipAddress, patientId, name, FALSE,
                              "token_not_found", patient.id))
              /\ Served("verify-patient", request, 401, <<>>)
              /\ history' = counted
         ELSE IF \/ toLowerCase(patient.name) # toLowerCase(name)
                 \/ patient.patientId # patientId
                 \/ patient.dateOfBirth # dateOfBirth
         THEN /\ createPortalAccessLog(
                   PatientLog(token, ipAddress, patientId, name, FALSE,
                              "identity_mismatch", patient.id))
              /\ Served("verify-patient", request, 401, <<>>)
              /\ history' = counted
         ELSE /\ createPortalAccessLog(
                   PatientLog(token, ipAddress, patientId, name, TRUE,
                              NULL, patient.id))
              /\ Served("verify-patient", request, 200,
                        [verified |-> TRUE, accessToken |-> token])
              /\ history' =
                   [counted EXCEPT !.patientVerified =
                      IF token \in history.tokenVerified THEN @ \cup {token} ELSE @]

(* GET /api/patient-portal/data/:token.  Lesions are not modelled: the     *)
(* lesion list of every patient is empty.                                  *)
GetPortalData(token) ==
  LET request == [token |-> token]
      patient == getPatientByTokenLookupHash(createTokenLookupHash(token))
  IN  /\ UNCHANGED <<patients, portalAccessLogs, history, now>>
      /\ IF Len(token) = 0 \/ ~isValidTokenFormat(token)
         THEN Served("data", request, 400, <<>>)
         ELSE IF patient = NoPatient
         THEN Served("data", request, 401, <<>>)
         ELSE IF ~verifyAccessToken(token, patient.accessToken)
         THEN Served("data", request, 401, <<>>)
         ELSE Served("data", request, 200,
                [patient |-> [f \in DOMAIN patient \ {"accessToken"} |-> patient[f]],
                 lesions |-> <<>>])

PortalTick ==
  /\ \E minute \in Minutes : minute > now /\ now' = minute
  /\ UNCHANGED <<patients, portalAccessLogs, portalResponse, history>>

InitPortal == FunctionsIdle /\ ServerIdle

NextPortal ==
  /\ \/ RegisterPatient
     \/ /\ history.requests < MaxRequests
        /\ \E ipAddress \in IpInputs, token \in TokenInputs :
              VerifyToken(ipAddress, token)
     \/ /\ history.requests < MaxRequests
        /\ \E ipAddress \in IpInputs, token \in PatientTokenInputs,
              identity \in IdentityInputs :
              VerifyPatient(ipAddress, token, identity.patientId, identity.name,
                            identity.dateOfBirth)
     \/ \E token \in TokenInputs : GetPortalData(token)
  /\ UNCHANGED <<functionVars, auditVars, requestVars>>

SpecPortal == InitPortal /\ [][NextPortal]_vars

(* Many verify-token requests from one address, around a lapse of the      *)
(* rate-limit window.                                                      *)
NextRateLimit ==
  /\ \/ RegisterPatient
     \/ /\ history.requests < MaxAttempts
        /\ \E token \in {FirstToken, UnknownToken} : VerifyToken("10.0.0.1", token)
     \/ PortalTick
  /\ UNCHANGED <<functionVars, auditVars, requestVars>>

SpecRateLimit == InitPortal /\ [][NextRateLimit]_vars

(***************************************************************************)
(* generateAccessToken (server/token-utils.ts).  randomBytes holds the     *)
(* buffer that crypto.randomBytes returns for each segment.                *)
(***************************************************************************)
segments == 3

segmentLength == 4

ByteValues == 0..255

FillBytes == {0, 255}

charsWithAmbiguous ==
  <<"A", "B", "C", "D", "E", "F", "G", "H", "I", "J", "K", "L", "M", "N", "O", "P",
    "Q", "R", "S", "T", "U", "V", "W", "X", "Y", "Z", "2", "3", "4", "5", "6", "7">>

chars ==
  <<"A", "B", "C", "D", "E", "F", "G", "H", "J", "K", "L", "M", "N", "P", "Q", "R",
    "S", "T", "U", "V", "W", "X", "Y", "Z", "2", "3", "4", "5", "6", "7", "8", "9">>

Segment(bytes) ==
  [j \in 1..segmentLength |-> chars[(bytes[j] % Len(chars)) + 1]]

RECURSIVE Join(_, _)
Join(parts, separator) ==
  IF Len(parts) = 0 THEN <<>>
  ELSE IF Len(parts) = 1 THEN parts[1]
  ELSE parts[1] \o separator \o Join(Tail(parts), separator)

generateAccessToken(randomBytes) ==
  Join([i \in 1..segments |-> Segment(randomBytes[i])], <<"-">>)

InitToken ==
  /\ FunctionsIdle
  /\ AuditIdle
  /\ PortalIdle
  /\ UpdateIdle
  /\ RegistrationsIdle
  /\ NoInsertPending
  /\ LesionAnalysisIdle
  /\ \E i \in 1..segments, j \in 1..segmentLength, byte \in ByteValues,
        fill \in FillBytes :
        tokenGen = [NoTokenGen EXCEPT
                      !.pc = "start",
                      !.randomBytes =
                         [a \in 1..segments |->
                            [b \in 1..segmentLength |->
                               IF a = i /\ b = j THEN byte ELSE fill]]]

GenerateToken ==
  /\ tokenGen.pc = "start"
  /\ tokenGen' = [tokenGen EXCEPT
                    !.pc = "generated",
                    !.token = generateAccessToken(tokenGen.randomBytes)]
  /\ UNCHANGED <<functionVars, auditVars, portalVars, updateResponse, registrations,
                 pendingAnalysis, lesions, lesionAnalysis>>

ValidateToken ==
  /\ tokenGen.pc = "generated"
  /\ tokenGen' = [tokenGen EXCEPT
                    !.pc = "validated",
                    !.valid = isValidTokenFormat(tokenGen.token)]
  /\ UNCHANGED <<functionVars, auditVars, portalVars, updateResponse, registrations,
                 pendingAnalysis, lesions, lesionAnalysis>>

NextToken == GenerateToken \/ ValidateToken

SpecToken == InitToken /\ [][NextToken]_vars

(***************************************************************************)
(* POST /api/patients, one action per database call it awaits, for         *)
(* requests that run side by side.  The patients table rejects an insert   *)
(* that repeats a value of a unique column (shared/schema.ts).             *)
(***************************************************************************)
RegistrationBodies ==
  {[patientId |-> "P-1", name |-> "Ann", dateOfBirth |-> "1990-01-01",
    fitzpatrickType |-> "I"],
   [patientId |-> "P-1", name |-> "Bob", dateOfBirth |-> "1985-05-05",
    fitzpatrickType |-> NULL],
   [patientId |-> "P-2", name |-> "Bob", dateOfBirth |-> "1985-05-05",
    fitzpatrickType |-> NULL]}

GeneratedTokens == {FirstToken, SecondToken}

PatientRowIds == <<"patient-1", "patient-2", "patient-3">>

getPatientByPatientId(patientId) ==
  IF \E i \in DOMAIN patients : patients[i].patientId = patientId
  THEN patients[CHOOSE i \in DOMAIN patients : patients[i].patientId = patientId]
  ELSE NoPatient

NoUniqueViolation(row) == FALSE

UniqueViolation(row) ==
  \E i \in DOMAIN patients :
     \/ patients[i].patientId = row.patientId
     \/ patients[i].accessToken = row.accessToken
     \/ patients[i].tokenLookupHash = row.tokenLookupHash

(* ... up to the answer of getPatientByPatientId. *)
RegisterCheck(r) ==
  /\ registrations[r].pc \in {"idle", "done"}
  /\ \E body \in RegistrationBodies :
        registrations' = [registrations EXCEPT ![r] =
          IF getPatientByPatientId(body.patientId) # NoPatient
          THEN [pc |-> "done", body |-> body, status |-> 400,
                message |-> "Patient ID already exists"]
          ELSE [pc |-> "checked", body |-> body, status |-> 0, message |-> ""]]
  /\ UNCHANGED patients

(* ... the insert of createPatient and the answer. *)
RegisterInsert(r) ==
  /\ registrations[r].pc = "checked"
  /\ \E plainToken \in GeneratedTokens :
        LET body == registrations[r].body
            row == [id |-> PatientRowIds[Len(patients) + 1],
                    patientId |-> body.patientId,
                    name |-> body.name,
                    dateOfBirth |-> body.dateOfBirth,
                    fitzpatrickType |-> body.fitzpatrickType,
                    accessToken |-> hashAccessToken(plainToken),
                    tokenLookupHash |-> createTokenLookupHash(plainToken)]
        IN  IF UniqueViolation(row)
            THEN /\ registrations' = [registrations EXCEPT ![r] =
                       [pc |-> "done", body |-> body, status |-> 400,
                        message |-> "duplicate key value violates unique constraint"]]
                 /\ UNCHANGED patients
            ELSE /\ registrations' = [registrations EXCEPT ![r] =
                       [pc |-> "done", body |-> body, status |-> 200, message |-> ""]]
                 /\ patients' = Append(patients, row)

InitRegistration == FunctionsIdle /\ ServerIdle

NextRegistration ==
  /\ \E r \in RegistrationRequests : RegisterCheck(r) \/ RegisterInsert(r)
  /\ UNCHANGED <<functionVars, auditVars, updateResponse, tokenGen, pendingAnalysis,
                 lesions, lesionAnalysis, portalAccessLogs, portalResponse, history, now>>

SpecRegistration == InitRegistration /\ [][NextRegistration]_vars

(***************************************************************************)
(* POST /api/analyze-lesion with the answer of the classifier               *)
(* (server/gemini.ts, server/routes.ts).  A JSON value is a record of its  *)
(* type and its content: num for a number, str for a string, which is the  *)
(* sequence of its characters.  The strings that occur are words and       *)
(* decimal digit strings.                                                  *)
(***************************************************************************)
Json(type, num, str) == [type |-> type, num |-> num, str |-> str]

JsonNumber(x) == Json("number", x, <<>>)

JsonString(s) == Json("string", NaN, s)

JsonTrue == Json("true", NaN, <<>>)

JsonFalse == Json("false", NaN, <<>>)

JsonNull == Json("null", NaN, <<>>)

Undefined == Json("undefined", NaN, <<>>)

(* The operand of || that gives way to the right-hand side. *)
JsonFalsy(v) ==
  \/ v.type \in {"null", "undefined", "false"}
  \/ v.type = "number" /\ (IsNaN(v.num) \/ v.num = I(0))
  \/ v.type = "string" /\ v.str = <<>>

OrZero(v) == IF JsonFalsy(v) THEN JsonNumber(I(0)) ELSE v

Digits == <<"0", "1", "2", "3", "4", "5", "6", "7", "8", "9">>

IsDigit(c) == \E i \in DOMAIN Digits : Digits[i] = c

DigitValue(c) == (CHOOSE i \in DOMAIN Digits : Digits[i] = c) - 1

RECURSIVE DecimalValue(_, _, _)
DecimalValue(s, i, acc) ==
  IF i > Len(s) THEN acc ELSE DecimalValue(s, i + 1, 10 * acc + DigitValue(s[i]))

StringToNumber(s) ==
  IF s = <<>> THEN I(0)
  ELSE IF \A i \in DOMAIN s : IsDigit(s[i]) THEN I(DecimalValue(s, 1, 0))
  ELSE NaN

(* The conversion Math.round applies to its argument. *)
ToNumber(v) ==
  CASE v.type = "number" -> v.num
    [] v.type = "string" -> StringToNumber(v.str)
    [] v.type = "true" -> I(1)
    [] v.type \in {"false", "null"} -> I(0)
    [] OTHER -> NaN

(* Math.round: the nearest integer, a half going up; NaN and the           *)
(* infinities stay.                                                        *)
MathRound(x) == IF x.d = 0 THEN x ELSE I((2 * x.n + x.d) \div (2 * x.d))

roundScore(value) == MathRound(ToNumber(OrZero(value)))

(* Math.max(0, Math.min(100, Math.round(value || 0))) *)
clampScore(value) ==
  MathMax(<<I(0), MathMin(<<I(100), MathRound(ToNumber(OrZero(value)))>>)>>)

LowerLetters ==
  <<"a", "b", "c", "d", "e", "f", "g", "h", "i", "j", "k", "l", "m",
    "n", "o", "p", "q", "r", "s", "t", "u", "v", "w", "x", "y", "z">>

UpperLetters ==
  <<"A", "B", "C", "D", "E", "F", "G", "H", "I", "J", "K", "L", "M",
    "N", "O", "P", "Q", "R", "S", "T", "U", "V", "W", "X", "Y", "Z">>

StringToUpperCase(s) ==
  [i \in DOMAIN s |->
     IF \E k \in DOMAIN LowerLetters : LowerLetters[k] = s[i]
     THEN UpperLetters[CHOOSE k \in DOMAIN LowerLetters : LowerLetters[k] = s[i]]
     ELSE s[i]]

StringToLowerCase(s) ==
  [i \in DOMAIN s |->
     IF \E k \in DOMAIN UpperLetters : UpperLetters[k] = s[i]
     THEN LowerLetters[CHOOSE k \in DOMAIN UpperLetters : UpperLetters[k] = s[i]]
     ELSE s[i]]

charAt(s, index) == IF index < Len(s) THEN <<s[index + 1]>> ELSE <<>>

slice(s, start) == SubSeq(s, start + 1, Len(s))

BenignString == <<"B", "e", "n", "i", "g", "n">>

MalignantString == <<"M", "a", "l", "i", "g", "n", "a", "n", "t">>

RashString == <<"R", "a", "s", "h">>

InfectionString == <<"I", "n", "f", "e", "c", "t", "i", "o", "n">>

(* validClassifications of analyzeLesionImage *)
validClassificationStrings ==
  {BenignString, MalignantString, RashString, InfectionString}

AnalysisCompleted ==
  <<"A", "n", "a", "l", "y", "s", "i", "s", " ",
    "c", "o", "m", "p", "l", "e", "t", "e", "d">>

ScoreFields ==
  {"confidence", "benignScore", "malignantScore", "rashScore", "infectionScore"}

Thrown == [threw |-> TRUE]

(* The validation of result.classification: the valid value, its           *)
(* capitalised form if that is valid, or an error.  A value that is        *)
(* neither falsy nor a string has no charAt.                               *)
normalizeClassification(classification) ==
  IF JsonFalsy(classification) THEN Thrown
  ELSE IF classification.type = "string"
          /\ classification.str \in validClassificationStrings
  THEN [threw |-> FALSE, classification |-> classification.str]
  ELSE IF classification.type # "string" THEN Thrown
  ELSE LET normalized ==
             StringToUpperCase(charAt(classification.str, 0))
             \o StringToLowerCase(slice(classification.str, 1))
       IN  IF normalized \in validClassificationStrings
           THEN [threw |-> FALSE, classification |-> normalized]
           ELSE Thrown

(* analyzeLesionImage: the result it returns, or that it threw.  The       *)
(* answer is the parsed response text; a failed call, an empty response    *)
(* text and a text that is no JSON are the answer of type "failure", the   *)
(* text null is the answer of type "null".                                 *)
analyzeLesionImage(base64Image, answer) ==
  IF base64Image = "" THEN Thrown
  ELSE IF answer.type # "object" THEN Thrown
  ELSE LET valid == normalizeClassification(answer.classification)
       IN  IF valid.threw THEN Thrown
           ELSE [threw |-> FALSE,
                 classification |-> valid.classification,
                 confidence |-> clampScore(answer.confidence),
                 benignScore |-> clampScore(answer.benignScore),
                 malignantScore |-> clampScore(answer.malignantScore),
                 rashScore |-> clampScore(answer.rashScore),
                 infectionScore |-> clampScore(answer.infectionScore),
                 reasoning |-> IF JsonFalsy(answer.reasoning)
                               THEN JsonString(AnalysisCompleted)
                               ELSE answer.reasoning]

(* insertAnalysisSchema.parse: the text columns take strings, the integer  *)
(* columns take numbers, and NaN is no number.                             *)
insertAnalysisSchemaAccepts(data) ==
  /\ data.aiResponse.type = "string"
  /\ \A field \in ScoreFields : ~IsNaN(data[field])

(* The integer columns of the analyses table take whole numbers only. *)
IntegerColumnsAccept(data) == \A field \in ScoreFields : data[field].d = 1

getPatient(id) ==
  IF \E i \in DOMAIN patients : patients[i].id = id
  THEN patients[CHOOSE i \in DOMAIN patients : patients[i].id = id]
  ELSE NoPatient

(* The requests: the uploaded file is its content in base64, NULL without  *)
(* a file.                                                                 *)
AnalyzeRequests ==
  {[file |-> "jpeg", patientId |-> "patient-1", location |-> "arm"],
   [file |-> NULL, patientId |-> "patient-1", location |-> "arm"],
   [file |-> "", patientId |-> "patient-1", location |-> "arm"],
   [file |-> "jpeg", patientId |-> "patient-1", location |-> ""],
   [file |-> "jpeg", patientId |-> "patient-3", location |-> "arm"]}

ClassificationAnswers ==
  {JsonString(BenignString), JsonString(MalignantString),
   JsonString(RashString), JsonString(InfectionString),
   JsonString(StringToLowerCase(BenignString)),
   JsonString(StringToUpperCase(MalignantString)),
   JsonString(<<"r", "A", "S", "H">>),
   JsonString(<<"M", "o", "l", "e">>),
   JsonString(<<" ">> \o BenignString),
   JsonString(<<>>), JsonNull, Undefined, JsonNumber(I(2)), JsonTrue}

ScoreAnswers ==
  {JsonNumber(I(0)), JsonNumber(I(85)), JsonNumber(I(100)), JsonNumber(I(101)),
   JsonNumber(I(-5)), JsonNumber(Norm(1, 2)), JsonNumber(Norm(-1, 2)),
   JsonNumber(Norm(171, 2)), JsonNumber(Norm(1999, 20)),
   JsonNumber(Norm(1, 0)), JsonNumber(Norm(-1, 0)),
   JsonString(<<"8", "5">>), JsonString(<<"2", "5", "0">>),
   JsonString(<<"h", "i", "g", "h">>), JsonString(<<>>),
   JsonNull, Undefined, JsonTrue, JsonFalse}

FillScores == {JsonNumber(I(50)), JsonNumber(I(250))}

ReasoningAnswers == {JsonString(<<"o", "k">>), Undefined, JsonNumber(I(7))}

(* The answers: an object in which one score takes every value while the   *)
(* others are the same number, null, or no answer at all.                  *)
ObjectAnswers ==
  {[type |-> "object",
    classification |-> classification,
    confidence |-> IF field = "confidence" THEN score ELSE fill,
    benignScore |-> IF field = "benignScore" THEN score ELSE fill,
    malignantScore |-> IF field = "malignantScore" THEN score ELSE fill,
    rashScore |-> IF field = "rashScore" THEN score ELSE fill,
    infectionScore |-> IF field = "infectionScore" THEN score ELSE fill,
    reasoning |-> reasoning] :
      classification \in ClassificationAnswers, field \in ScoreFields,
      score \in ScoreAnswers, fill \in FillScores, reasoning \in ReasoningAnswers}

ClassifierAnswers == ObjectAnswers \cup {[type |-> "null"], [type |-> "failure"]}

NoLesion == [id |-> 0]

NoAnalysis == [lesionId |-> 0]

RegisteredRoster ==
  [i \in DOMAIN Roster |->
     [id |-> Roster[i].id,
      patientId |-> Roster[i].patientId,
      name |-> Roster[i].name,
      dateOfBirth |-> Roster[i].dateOfBirth,
      fitzpatrickType |-> Roster[i].fitzpatrickType,
      accessToken |-> hashAccessToken(Roster[i].token),
      tokenLookupHash |-> createTokenLookupHash(Roster[i].token)]]

(* The handler of POST /api/analyze-lesion: the status it answers, the     *)
(* lesion and the analysis it has inserted by then.                        *)
analyzeLesion(request, answer) ==
  IF request.file = NULL THEN [status |-> 400, lesion |-> NoLesion, analysis |-> NoAnalysis]
  ELSE IF Falsy(request.patientId) \/ Falsy(request.location)
  THEN [status |-> 400, lesion |-> NoLesion, analysis |-> NoAnalysis]
  ELSE IF getPatient(request.patientId) = NoPatient
  THEN [status |-> 404, lesion |-> NoLesion, analysis |-> NoAnalysis]
  ELSE LET analysisResult == analyzeLesionImage(request.file, answer)
           lesion == [id |-> Len(lesions) + 1,
                      patientId |-> request.patientId,
                      location |-> request.location]
       IN  IF analysisResult.threw
           THEN [status |-> 500, lesion |-> NoLesion, analysis |-> NoAnalysis]
           ELSE LET data ==
                      [lesionId |-> lesion.id,
                       classification |-> analysisResult.classification,
                       confidence |-> analysisResult.confidence,
                       benignScore |-> analysisResult.benignScore,
                       malignantScore |-> analysisResult.malignantScore,
                       rashScore |-> analysisResult.rashScore,
                       infectionScore |-> analysisResult.infectionScore,
                       aiResponse |-> analysisResult.reasoning]
                IN  IF insertAnalysisSchemaAccepts(data) /\ IntegerColumnsAccept(data)
                    THEN [status |-> 200, lesion |-> lesion,
                          analysis |-> data @@ [groundTruthLabel |-> NULL,
                                                groundTruthSource |-> NULL,
                                                analyzedAt |-> defaultNow]]
                    ELSE [status |-> 500, lesion |-> lesion, analysis |-> NoAnalysis]

AnalyzeLesion ==
  /\ lesionAnalysis.status = 0
  /\ LET result == analyzeLesion(lesionAnalysis.request, lesionAnalysis.answer)
     IN  /\ lesions' = IF result.lesion = NoLesion THEN lesions
                       ELSE Append(lesions, result.lesion)
         /\ analyses' = IF result.analysis = NoAnalysis THEN analyses
                        ELSE Append(analyses, result.analysis)
         /\ lesionAnalysis' = [lesionAnalysis EXCEPT !.status = result.status]
  /\ UNCHANGED <<fairnessAuditRuns, fairnessMetricRows, calc, reader,
                 alertsResponse, clock>>
  /\ UNCHANGED <<functionVars, portalVars, updateResponse, tokenGen,
                 registrations, pendingAnalysis>>

InitClassifier ==
  /\ FunctionsIdle
  /\ AuditIdle
  /\ patients = RegisteredRoster
  /\ portalAccessLogs = EmptyBag
  /\ portalResponse = NoResponse
  /\ history = NoHistory
  /\ now = 0
  /\ UpdateIdle
  /\ TokenGenIdle
  /\ RegistrationsIdle
  /\ NoInsertPending
  /\ lesions = <<>>
  /\ \E request \in AnalyzeRequests, answer \in ClassifierAnswers :
        lesionAnalysis = [status |-> 0, request |-> request, answer |-> answer]

NextClassifier == AnalyzeLesion

SpecClassifier == InitClassifier /\ [][NextClassifier]_vars

(***************************************************************************)
(* The audit pipeline: calculateFairnessMetricsPerGroup, then              *)
(* calculateDisparityMetrics on its result.                                *)
(***************************************************************************)
Init ==
  /\ \E k \in 0..MaxRecords :
        \/ records \in [1..k -> GroupingInputs]
        \/ records \in [1..k -> CalibrationInputs]
  /\ metrics = <<>>
  /\ disparity = NoDisparity
  /\ predictions = <<>>
  /\ confusion = ZeroMatrix
  /\ brier = I(0)
  /\ pc = "start"
  /\ ServerIdle

CalcMetrics ==
  /\ pc = "start"
  /\ metrics' = calculateFairnessMetricsPerGroup(records)
  /\ pc' = "metrics"
  /\ UNCHANGED <<records, disparity, predictions, confusion, brier>>
  /\ UNCHANGED serverVars

CalcDisparity ==
  /\ pc = "metrics"
  /\ disparity' = calculateDisparityMetrics(metrics)
  /\ pc' = "done"
  /\ UNCHANGED <<records, metrics, predictions, confusion, brier>>
  /\ UNCHANGED serverVars

Next == CalcMetrics \/ CalcDisparity

Spec == Init /\ [][Next]_vars

(***************************************************************************)
(* calculateDisparityMetrics applied to any list of per-group metrics.     *)
(***************************************************************************)
InitDisparity ==
  /\ records = <<>>
  /\ \E n \in 0..MaxGroups : \E rates \in [1..n -> RateInputs] :
        metrics = [k \in 1..n |->
                     MetricsInput(GroupKeys[k], rates[k].positiveRate,
                                  rates[k].truePositiveRate, rates[k].brierScore)]
  /\ disparity = NoDisparity
  /\ predictions = <<>>
  /\ confusion = ZeroMatrix
  /\ brier = I(0)
  /\ pc = "metrics"
  /\ ServerIdle

NextDisparity == CalcDisparity

SpecDisparity == InitDisparity /\ [][NextDisparity]_vars

(***************************************************************************)
(* calculateConfusionMatrix and calculateBrierScore applied to any list of *)
(* predictions.                                                            *)
(***************************************************************************)
InitPredictions ==
  /\ records = <<>>
  /\ metrics = <<>>
  /\ disparity = NoDisparity
  /\ \E k \in 0..MaxPredictions :
        \/ predictions \in [1..k -> LabelPredictions]
        \/ predictions \in [1..k -> ConfidencePredictions]
  /\ confusion = ZeroMatrix
  /\ brier = I(0)
  /\ pc = "start"
  /\ ServerIdle

ApplyConfusionMatrix ==
  /\ pc = "start"
  /\ confusion' = calculateConfusionMatrix(predictions)
  /\ pc' = "confusion"
  /\ UNCHANGED <<records, metrics, disparity, predictions, brier>>
  /\ UNCHANGED serverVars

ApplyBrierScore ==
  /\ pc = "confusion"
  /\ brier' = calculateBrierScore(predictions)
  /\ pc' = "done"
  /\ UNCHANGED <<records, metrics, disparity, predictions, confusion>>
  /\ UNCHANGED serverVars

NextPredictions == ApplyConfusionMatrix \/ ApplyBrierScore

SpecPredictions == InitPredictions /\ [][NextPredictions]_vars

(***************************************************************************)
(* Vocabulary of the properties, stated without the operators above.       *)
(***************************************************************************)
Positive(label) == label = "Malignant" \/ label = "Infection"

Missing(s) == s = NULL \/ s = ""

Qualifying == {i \in DOMAIN records : ~Missing(records[i].analysis.groundTruthLabel)}

GroupKeyOf(r) ==
  IF Missing(r.patient.fitzpatrickType) THEN "Unknown" ELSE r.patient.fitzpatrickType

Members(key) == {i \in Qualifying : GroupKeyOf(records[i]) = key}

RatEq(a, b) == a.d > 0 /\ b.d > 0 /\ a.n * b.d = b.n * a.d

RatLE(a, b) == a.d > 0 /\ b.d > 0 /\ a.n * b.d <= b.n * a.d

IsZero(a) == a.d > 0 /\ a.n = 0

MetricsComputed == pc \in {"metrics", "done"}

(***************************************************************************)
(* C1: in every per-group metrics record returned by                       *)
(* calculateFairnessMetricsPerGroup the four confusion counts are          *)
(* non-negative integers and add up to totalPredictions.                   *)
(***************************************************************************)
C1_PartitionCompleteness ==
  MetricsComputed =>
    \A j \in DOMAIN metrics :
      /\ metrics[j].truePositives \in Nat
      /\ metrics[j].falsePositives \in Nat
      /\ metrics[j].trueNegatives \in Nat
      /\ metrics[j].falseNegatives \in Nat
      /\ metrics[j].truePositives + metrics[j].falsePositives
           + metrics[j].trueNegatives + metrics[j].falseNegatives
         = metrics[j].totalPredictions

C1_Witness ==
  /\ MetricsComputed
  /\ \E j \in DOMAIN metrics :
       /\ metrics[j].totalPredictions = 2
       /\ metrics[j].truePositives = 1
       /\ metrics[j].falseNegatives = 1

(***************************************************************************)
(* C2: calculateConfusionMatrix puts every record in exactly one bucket,   *)
(* chosen by membership of classification and groundTruth in {Malignant,   *)
(* Infection}: (pos,pos) tp, (pos,neg) fp, (neg,neg) tn, (neg,pos) fn.     *)
(* Labels outside the vocabulary count as not positive, and replacing a    *)
(* non-positive label by another non-positive label leaves the matrix      *)
(* unchanged.                                                              *)
(***************************************************************************)
NonPositiveLabels == {"Benign", "Rash", "Mole"}

C2_TruthTable ==
  pc \in {"confusion", "done"} =>
    /\ confusion.truePositives =
         Cardinality({i \in DOMAIN predictions :
            Positive(predictions[i].classification) /\ Positive(predictions[i].groundTruth)})
    /\ confusion.falsePositives =
         Cardinality({i \in DOMAIN predictions :
            Positive(predictions[i].classification) /\ ~Positive(predictions[i].groundTruth)})
    /\ confusion.trueNegatives =
         Cardinality({i \in DOMAIN predictions :
            ~Positive(predictions[i].classification) /\ ~Positive(predictions[i].groundTruth)})
    /\ confusion.falseNegatives =
         Cardinality({i \in DOMAIN predictions :
            ~Positive(predictions[i].classification) /\ Positive(predictions[i].groundTruth)})
    /\ \A i \in DOMAIN predictions : \A l \in NonPositiveLabels :
         /\ ~Positive(predictions[i].classification) =>
              calculateConfusionMatrix([predictions EXCEPT ![i].classification = l]) = confusion
         /\ ~Positive(predictions[i].groundTruth) =>
              calculateConfusionMatrix([predictions EXCEPT ![i].groundTruth = l]) = confusion

C2_Witness ==
  /\ pc = "confusion"
  /\ Len(predictions) = 2
  /\ predictions[1].classification = "Mole"
  /\ predictions[1].groundTruth = "Infection"
  /\ predictions[2].classification = "Infection"
  /\ predictions[2].groundTruth = "Rash"
  /\ confusion.falseNegatives = 1
  /\ confusion.falsePositives = 1

(***************************************************************************)
(* C3: a metric whose denominator is 0 is exactly 0 (truePositiveRate with *)
(* no actual positives, falsePositiveRate with no actual negatives,        *)
(* precision with no positive predictions, f1Score with precision + recall *)
(* = 0, positiveRate and brierScore with no records), and no metric of a   *)
(* group is NaN or infinite.                                               *)
(***************************************************************************)
RateFields(m) ==
  {m.positiveRate, m.truePositiveRate, m.falsePositiveRate, m.precision, m.recall,
   m.f1Score, m.brierScore, m.averageConfidence, m.accuracyAtConfidence}

C3_ZeroDenominator ==
  MetricsComputed =>
    \A j \in DOMAIN metrics :
      LET m == metrics[j]
      IN /\ \A x \in RateFields(m) : x.d > 0
         /\ m.totalPredictions = 0 => IsZero(m.positiveRate) /\ IsZero(m.brierScore)
         /\ m.truePositives + m.falseNegatives = 0 => IsZero(m.truePositiveRate)
         /\ m.falsePositives + m.trueNegatives = 0 => IsZero(m.falsePositiveRate)
         /\ m.truePositives + m.falsePositives = 0 => IsZero(m.precision)
         /\ IsZero(m.precision) /\ IsZero(m.recall) => IsZero(m.f1Score)

C3_Witness ==
  /\ MetricsComputed
  /\ \E j \in DOMAIN metrics :
       /\ metrics[j].truePositives + metrics[j].falseNegatives = 0
       /\ metrics[j].truePositives + metrics[j].falsePositives = 0
       /\ IsZero(metrics[j].truePositiveRate)
       /\ IsZero(metrics[j].precision)
       /\ IsZero(metrics[j].f1Score)
  /\ \E j \in DOMAIN metrics :
       /\ metrics[j].falsePositives + metrics[j].trueNegatives = 0
       /\ IsZero(metrics[j].falsePositiveRate)

(***************************************************************************)
(* C4: every record with a non-empty ground truth label is in exactly one  *)
(* group, keyed by the patient's fitzpatrickType or by "Unknown" when that *)
(* is missing; there is one metrics record per distinct key, and the       *)
(* totalPredictions of the groups add up to the number of such records.    *)
(***************************************************************************)
RECURSIVE SumTotalPredictions(_, _)
SumTotalPredictions(ms, j) ==
  IF j > Len(ms) THEN 0 ELSE ms[j].totalPredictions + SumTotalPredictions(ms, j + 1)

C4_GroupPartition ==
  MetricsComputed =>
    /\ \A j, k \in DOMAIN metrics :
         metrics[j].fitzpatrickType = metrics[k].fitzpatrickType => j = k
    /\ {metrics[j].fitzpatrickType : j \in DOMAIN metrics}
         = {GroupKeyOf(records[i]) : i \in Qualifying}
    /\ \A j \in DOMAIN metrics :
         metrics[j].totalPredictions = Cardinality(Members(metrics[j].fitzpatrickType))
    /\ SumTotalPredictions(metrics, 1) = Cardinality(Qualifying)

C4_Witness ==
  /\ MetricsComputed
  /\ Len(records) = 2
  /\ records[1].patient.fitzpatrickType = NULL
  /\ records[2].patient.fitzpatrickType = "II"
  /\ Qualifying = {1, 2}
  /\ Len(metrics) = 2
  /\ metrics[1].fitzpatrickType = "Unknown"
  /\ metrics[1].totalPredictions = 1

(***************************************************************************)
(* C5: for a non-empty metrics list calculateDisparityMetrics returns the  *)
(* max - min of positiveRate, of truePositiveRate and of brierScore over   *)
(* the groups, and overallDisparityScore is the mean of the three gaps     *)
(* (positive rates 0.40 and 0.10 with equal TPR and Brier score: gap 0.30, *)
(* overall 0.10).                                                          *)
(***************************************************************************)
IsSpread(gap, xs) ==
  \E hi, lo \in DOMAIN xs :
    /\ \A k \in DOMAIN xs : RatLE(xs[k], xs[hi]) /\ RatLE(xs[lo], xs[k])
    /\ gap.d > 0
    /\ gap.n * xs[hi].d * xs[lo].d = gap.d * (xs[hi].n * xs[lo].d - xs[lo].n * xs[hi].d)

IsMeanOfThree(mean, a, b, c) ==
  /\ mean.d > 0 /\ a.d > 0 /\ b.d > 0 /\ c.d > 0
  /\ 3 * mean.n * a.d * b.d * c.d
       = mean.d * (a.n * b.d * c.d + b.n * a.d * c.d + c.n * a.d * b.d)

ExampleRates ==
  /\ Len(metrics) = 2
  /\ metrics[1].positiveRate = [n |-> 2, d |-> 5]
  /\ metrics[2].positiveRate = [n |-> 1, d |-> 10]
  /\ metrics[1].truePositiveRate = metrics[2].truePositiveRate
  /\ metrics[1].brierScore = metrics[2].brierScore

C5_GapsAreSpreads ==
  pc = "done" /\ Len(metrics) > 0 =>
    /\ IsSpread(disparity.demographicParityGap,
                [k \in DOMAIN metrics |-> metrics[k].positiveRate])
    /\ IsSpread(disparity.equalOpportunityGap,
                [k \in DOMAIN metrics |-> metrics[k].truePositiveRate])
    /\ IsSpread(disparity.calibrationGap,
                [k \in DOMAIN metrics |-> metrics[k].brierScore])
    /\ IsMeanOfThree(disparity.overallDisparityScore, disparity.demographicParityGap,
                     disparity.equalOpportunityGap, disparity.calibrationGap)
    /\ ExampleRates =>
         /\ disparity.demographicParityGap = [n |-> 3, d |-> 10]
         /\ disparity.overallDisparityScore = [n |-> 1, d |-> 10]

C5_Witness ==
  /\ pc = "done"
  /\ ExampleRates
  /\ disparity.demographicParityGap = [n |-> 3, d |-> 10]
  /\ disparity.overallDisparityScore = [n |-> 1, d |-> 10]

(***************************************************************************)
(* C6: parityAlert is true iff demographicParityGap > 0.15,                *)
(* opportunityAlert iff equalOpportunityGap > 0.15 and calibrationAlert    *)
(* iff calibrationGap > 0.10; a gap equal to its threshold gives no alert. *)
(***************************************************************************)
ExceedsPercent(gap, percent) == gap.d > 0 /\ gap.n * 100 > percent * gap.d

C6_StrictThresholds ==
  pc = "done" =>
    /\ disparity.parityAlert = ExceedsPercent(disparity.demographicParityGap, 15)
    /\ disparity.opportunityAlert = ExceedsPercent(disparity.equalOpportunityGap, 15)
    /\ disparity.calibrationAlert = ExceedsPercent(disparity.calibrationGap, 10)

C6_Witness ==
  /\ pc = "done"
  /\ disparity.demographicParityGap = [n |-> 3, d |-> 20]
  /\ ~disparity.parityAlert
  /\ disparity.equalOpportunityGap = [n |-> 7, d |-> 20]
  /\ disparity.opportunityAlert
  /\ disparity.calibrationGap = [n |-> 1, d |-> 10]
  /\ ~disparity.calibrationAlert

(***************************************************************************)
(* C7: on a metrics list with exactly one group calculateDisparityMetrics  *)
(* returns gaps and overall score 0 and no alert, whatever the group's     *)
(* rates are.                                                              *)
(***************************************************************************)
NoGapNoAlert ==
  /\ IsZero(disparity.demographicParityGap)
  /\ IsZero(disparity.equalOpportunityGap)
  /\ IsZero(disparity.calibrationGap)
  /\ IsZero(disparity.overallDisparityScore)
  /\ ~disparity.parityAlert
  /\ ~disparity.opportunityAlert
  /\ ~disparity.calibrationAlert

C7_SingleGroup == pc = "done" /\ Len(metrics) = 1 => NoGapNoAlert

C7_Witness ==
  /\ pc = "done"
  /\ Len(metrics) = 1
  /\ metrics[1].positiveRate = [n |-> 2, d |-> 5]
  /\ metrics[1].truePositiveRate = [n |-> 1, d |-> 1]
  /\ metrics[1].brierScore = [n |-> 1, d |-> 4]
  /\ NoGapNoAlert

(***************************************************************************)
(* C8: with no qualifying record (an empty list, or only records without   *)
(* a ground truth label) calculateFairnessMetricsPerGroup returns no       *)
(* group, and calculateDisparityMetrics on the empty list returns gaps and *)
(* overall score 0 and no alert.                                           *)
(***************************************************************************)
C8_EmptyInput ==
  Qualifying = {} =>
    /\ MetricsComputed => metrics = <<>>
    /\ pc = "done" => NoGapNoAlert

C8_Witness ==
  /\ pc = "done"
  /\ Len(records) = 2
  /\ records[1].analysis.groundTruthLabel = NULL
  /\ records[2].analysis.groundTruthLabel = ""
  /\ metrics = <<>>
  /\ NoGapNoAlert

(***************************************************************************)
(* C9: calculateBrierScore is the mean over the records of                 *)
(* (confidence/100 - o)^2 with o = 1 iff classification and groundTruth    *)
(* are the same string, and 0 for the empty list.                          *)
(***************************************************************************)
RECURSIVE SumSquaredPercentError(_, _)
SumSquaredPercentError(preds, i) ==
  IF i > Len(preds) THEN 0
  ELSE LET target == IF preds[i].classification = preds[i].groundTruth THEN 100 ELSE 0
       IN (preds[i].confidence - target) * (preds[i].confidence - target)
            + SumSquaredPercentError(preds, i + 1)

C9_BrierIsMeanSquaredError ==
  pc = "done" =>
    /\ brier.d > 0
    /\ brier.n * 10000 * Len(predictions) = brier.d * SumSquaredPercentError(predictions, 1)
    /\ Len(predictions) = 0 => brier = [n |-> 0, d |-> 1]

C9_Witness ==
  /\ pc = "done"
  /\ Len(predictions) = 2
  /\ predictions[1] = [classification |-> "Malignant", groundTruth |-> "Malignant",
                       confidence |-> 40]
  /\ predictions[2] = [classification |-> "Mole", groundTruth |-> "Malignant",
                       confidence |-> 100]
  /\ brier = [n |-> 17, d |-> 25]

(***************************************************************************)
(* C10 as stated: for all inputs the brierScore of every group lies in     *)
(* [0, 1].                                                                 *)
(***************************************************************************)
InUnitInterval(x) == x.d > 0 /\ 0 <= x.n /\ x.n <= x.d

WithPositiveRate(ms, i, r) == [ms EXCEPT ![i].positiveRate = r]

GapAfterRaise(i, r) ==
  calculateDisparityMetrics(WithPositiveRate(metrics, i, r)).demographicParityGap

RateDistanceExceeds(a, b, percent) ==
  Abs(a.n * b.d - b.n * a.d) * 100 > percent * a.d * b.d

ParityAlertFollowsGap ==
  disparity.parityAlert
    = RateDistanceExceeds(metrics[1].positiveRate, metrics[2].positiveRate, 15)

C11_MonotoneEitherGroup ==
  pc = "done" /\ Len(metrics) = 2 =>
    /\ \A i \in 1..2 : \A r \in PositiveRateInputs :
         RatLE(metrics[i].positiveRate, r) =>
           RatLE(disparity.demographicParityGap, GapAfterRaise(i, r))
    /\ ParityAlertFollowsGap

(***************************************************************************)
(* C11 amended: for two groups, raising the positiveRate of the group      *)
(* whose rate is not below the other's never lowers demographicParityGap   *)
(* (raising the lower rate narrows the gap); parityAlert is true exactly   *)
(* when the gap exceeds 0.15.                                              *)
(***************************************************************************)
C11_MonotoneHigherGroup ==
  pc = "done" /\ Len(metrics) = 2 =>
    /\ \A i \in 1..2 : \A r \in PositiveRateInputs :
         /\ RatLE(metrics[3 - i].positiveRate, metrics[i].positiveRate)
         /\ RatLE(metrics[i].positiveRate, r)
         => RatLE(disparity.demographicParityGap, GapAfterRaise(i, r))
    /\ ParityAlertFollowsGap

C11_Witness ==
  /\ pc = "done"
  /\ Len(metrics) = 2
  /\ metrics[1].positiveRate = [n |-> 1, d |-> 4]
  /\ metrics[2].positiveRate = [n |-> 1, d |-> 10]
  /\ disparity.demographicParityGap = [n |-> 3, d |-> 20]
  /\ ~disparity.parityAlert
  /\ GapAfterRaise(1, [n |-> 2, d |-> 5]) = [n |-> 3, d |-> 10]
  /\ calculateDisparityMetrics(WithPositiveRate(metrics, 1, [n |-> 2, d |-> 5])).parityAlert

(***************************************************************************)
(* C12: the result does not depend on the order of the input: every        *)
(* permutation of the records gives the same set of per-group metrics      *)
(* records, and every permutation of the metrics list gives the same       *)
(* disparity record.                                                       *)
(***************************************************************************)
IndexPermutations(n) == {p \in [1..n -> 1..n] : \A a, b \in 1..n : p[a] = p[b] => a = b}

Permuted(xs, p) == [k \in DOMAIN xs |-> xs[p[k]]]

AsSet(xs) == {xs[k] : k \in DOMAIN xs}

OrderInputs ==
  [analysis : [classification : {"Malignant", "Benign"},
               groundTruthLabel : {NULL, "Malignant", "Benign"},
               confidence : {0, 40}],
   patient : [fitzpatrickType : {NULL, "I"}]]

InitOrder ==
  /\ \E k \in 0..MaxRecords : records \in [1..k -> OrderInputs]
  /\ metrics = <<>>
  /\ disparity = NoDisparity
  /\ predictions = <<>>
  /\ confusion = ZeroMatrix
  /\ brier = I(0)
  /\ pc = "start"
  /\ ServerIdle

SpecOrder == InitOrder /\ [][Next]_vars

MaxCount == 6

Repeat(item, n) == [k \in 1..n |-> item]

CountRecord(classification, groundTruthLabel) ==
  [analysis |-> [classification |-> classification,
                 groundTruthLabel |-> groundTruthLabel,
                 confidence |-> 40],
   patient |-> [fitzpatrickType |-> "I"]]

RecordsOfCounts(tp, fp, tn, fn, positiveTruth, negativeTruth) ==
  Repeat(CountRecord("Malignant", positiveTruth), tp)
    \o Repeat(CountRecord("Malignant", negativeTruth), fp)
    \o Repeat(CountRecord("Benign", negativeTruth), tn)
    \o Repeat(CountRecord("Benign", positiveTruth), fn)

InitCounts ==
  /\ \E tp, fp, tn, fn \in 0..MaxCount :
       \E positiveTruth \in {"Malignant", "Infection"} :
         \E negativeTruth \in {"Benign", "Rash"} :
           records = RecordsOfCounts(tp, fp, tn, fn, positiveTruth, negativeTruth)
  /\ metrics = <<>>
  /\ disparity = NoDisparity
  /\ predictions = <<>>
  /\ confusion = ZeroMatrix
  /\ brier = I(0)
  /\ pc = "start"
  /\ ServerIdle

SpecCounts == InitCounts /\ [][Next]_vars

(***************************************************************************)
(* C13: per group, precision = tp/(tp+fp), recall = truePositiveRate =     *)
(* tp/(tp+fn), falsePositiveRate = fp/(fp+tn), f1Score =                   *)
(* 2*precision*recall/(precision+recall), positiveRate = positive          *)
(* predictions / n, accuracyAtConfidence = correct predictions / n (each 0 *)
(* when its denominator is 0); tp=6, fn=1, fp=2, tn=1 gives precision 3/4, *)
(* recall 6/7 and f1Score 4/5.                                             *)
(***************************************************************************)
IsQuotient(x, num, den) ==
  IF den = 0 THEN IsZero(x) ELSE x.d > 0 /\ x.n * den = num * x.d

IsF1(x, precision, recall) ==
  IF IsZero(precision) /\ IsZero(recall) THEN IsZero(x)
  ELSE /\ x.d > 0
       /\ x.n * precision.d * recall.d * (precision.n * recall.d + recall.n * precision.d)
            = 2 * precision.n * recall.n * x.d * precision.d * recall.d

ExampleCounts(m) ==
  /\ m.truePositives = 6
  /\ m.falseNegatives = 1
  /\ m.falsePositives = 2
  /\ m.trueNegatives = 1

C13_RateFormulas ==
  MetricsComputed =>
    \A j \in DOMAIN metrics :
      LET m == metrics[j]
          members == Members(m.fitzpatrickType)
          positives == {i \in members : Positive(records[i].analysis.classification)}
          correct == {i \in members : records[i].analysis.classification
                                        = records[i].analysis.groundTruthLabel}
      IN /\ IsQuotient(m.precision, m.truePositives, m.truePositives + m.falsePositives)
         /\ IsQuotient(m.truePositiveRate, m.truePositives,
                       m.truePositives + m.falseNegatives)
         /\ m.recall = m.truePositiveRate
         /\ IsQuotient(m.falsePositiveRate, m.falsePositives,
                       m.falsePositives + m.trueNegatives)
         /\ IsF1(m.f1Score, m.precision, m.recall)
         /\ m.positivePredictions = Cardinality(positives)
         /\ IsQuotient(m.positiveRate, Cardinality(positives), Cardinality(members))
         /\ IsQuotient(m.accuracyAtConfidence, Cardinality(correct), Cardinality(members))
         /\ ExampleCounts(m) =>
              /\ m.totalPredictions = 10
              /\ m.precision = [n |-> 3, d |-> 4]
              /\ m.recall = [n |-> 6, d |-> 7]
              /\ m.f1Score = [n |-> 4, d |-> 5]

C13_Witness ==
  /\ MetricsComputed
  /\ Len(metrics) = 1
  /\ ExampleCounts(metrics[1])
  /\ metrics[1].precision = [n |-> 3, d |-> 4]
  /\ metrics[1].recall = [n |-> 6, d |-> 7]
  /\ metrics[1].f1Score = [n |-> 4, d |-> 5]
  /\ metrics[1].accuracyAtConfidence = [n |-> 7, d |-> 10]

(***************************************************************************)
(* Vocabulary of the server properties.                                    *)
(***************************************************************************)
NotAfter(a, b) == a.day < b.day \/ (a.day = b.day /\ a.seq <= b.seq)

LabelledInWindow(startDate, endDate) ==
  {i \in DOMAIN analyses :
     /\ ~Missing(analyses[i].groundTruthLabel)
     /\ NotAfter(startDate, analyses[i].analyzedAt)
     /\ NotAfter(analyses[i].analyzedAt, endDate)}

CalcFetchReturns == calc.pc = "counted" /\ calc'.pc # "counted"

(***************************************************************************)
(* C14: when the date window of POST /api/fairness/calculate holds no      *)
(* analysis with a ground truth label, the request answers 400, ends, and  *)
(* leaves the audit runs and the metric rows (from which the alerts are    *)
(* read) as they were; and the computation is only ever entered with at    *)
(* least one record that has a ground truth label.                         *)
(***************************************************************************)
C14_NoLabelsNoAudit ==
  [][CalcFetchReturns =>
       /\ LabelledInWindow(calc.startDate, calc.endDate) = {} =>
            /\ calc'.pc = "idle"
            /\ calc'.status = 400
            /\ fairnessAuditRuns' = fairnessAuditRuns
            /\ fairnessMetricRows' = fairnessMetricRows
       /\ calc'.pc = "fetched" =>
            \E i \in DOMAIN calc'.analysesData :
               ~Missing(calc'.analysesData[i].analysis.groundTruthLabel)]_vars

C14_Witness ==
  /\ calc.pc = "idle"
  /\ calc.status = 400
  /\ Len(fairnessAuditRuns) = 1
  /\ fairnessMetricRows # <<>>
  /\ clock = 31
  /\ \E i \in DOMAIN analyses :
        analyses[i].groundTruthLabel = "Malignant" /\ analyses[i].analyzedAt.day = 0

(***************************************************************************)
(* C15: whatever audit calculations, ground-truth updates and new analyses *)
(* came before, an answer of GET /api/fairness/alerts carries the audit    *)
(* run persisted last and exactly one entry per flag that is true in that  *)
(* stored run, with the gap stored in that run; with no audit run          *)
(* persisted the alert list is empty.                                      *)
(***************************************************************************)
FlagsOf(run) ==
  {t \in {"demographic_parity", "equal_opportunity", "calibration"} :
     \/ t = "demographic_parity" /\ run.parityAlert
     \/ t = "equal_opportunity" /\ run.opportunityAlert
     \/ t = "calibration" /\ run.calibrationAlert}

StoredGap(run, type) ==
  CASE type = "demographic_parity" -> run.demographicParityGap
    [] type = "equal_opportunity" -> run.equalOpportunityGap
    [] type = "calibration" -> run.calibrationGap

AnswersFromRun(response, run) ==
  /\ response.auditRun = run
  /\ Len(response.alerts) = Cardinality(FlagsOf(run))
  /\ {response.alerts[i].type : i \in DOMAIN response.alerts} = FlagsOf(run)
  /\ \A i \in DOMAIN response.alerts :
        response.alerts[i].gap = StoredGap(run, response.alerts[i].type)

C15_AlertsOfLatestRun ==
  [][alertsResponse' # alertsResponse =>
       IF fairnessAuditRuns = <<>>
       THEN alertsResponse'.alerts = <<>>
       ELSE AnswersFromRun(alertsResponse',
                           fairnessAuditRuns[Len(fairnessAuditRuns)])]_vars

C15_Witness ==
  /\ Len(fairnessAuditRuns) = 2
  /\ ~fairnessAuditRuns[1].parityAlert
  /\ fairnessAuditRuns[2].parityAlert
  /\ alertsResponse.auditRun = fairnessAuditRuns[2]
  /\ \E i \in DOMAIN alertsResponse.alerts :
        /\ alertsResponse.alerts[i].type = "demographic_parity"
        /\ alertsResponse.alerts[i].gap = [n |-> 1, d |-> 1]

(***************************************************************************)
(* C16: a reader never observes a persisted audit run without its metric   *)
(* rows: every answer of GET /api/fairness/audit-runs/:id that carries an  *)
(* audit run carries metric rows of that run, whatever the interleaving    *)
(* with POST /api/fairness/calculate and whether or not its insert of the  *)
(* metric rows failed.                                                     *)
(***************************************************************************)
C16_RunVisibleWithMetrics ==
  (reader.pc = "idle" /\ reader.status = 200) =>
     /\ reader.metrics # <<>>
     /\ \A j \in DOMAIN reader.metrics :
           reader.metrics[j].auditRunId = reader.auditRun.id

(***************************************************************************)
(* C17: GET /api/patient-portal/data/:token releases a patient's record    *)
(* only for a token for which a verify-token request and after it a        *)
(* verify-patient request succeeded earlier.                               *)
(***************************************************************************)
C17_DataAfterBothSteps ==
  (portalResponse.endpoint = "data" /\ portalResponse.status = 200) =>
     portalResponse.request.token \in history.patientVerified

(***************************************************************************)
(* C18: from one address at most 10 verify-token attempts made in the same *)
(* minute, hence within one 15-minute window, reach the token lookup.      *)
(***************************************************************************)
C18_AtMostTenLookups == \A minute \in Minutes : history.lookups[minute] <= 10

(***************************************************************************)
(* C19: there is exactly one access log entry per verify-token or          *)
(* verify-patient request served, and every entry carries the caller's     *)
(* address, the success flag and, on failure, a failure reason.            *)
(***************************************************************************)
C19_OneLogPerRequest ==
  /\ BagCardinality(portalAccessLogs) = history.requests
  /\ \A e \in BagToSet(portalAccessLogs) :
        /\ e.ipAddress \in IpInputs
        /\ e.success \in BOOLEAN
        /\ ~e.success => e.failureReason # NULL

(***************************************************************************)
(* C20: verify-patient answers verified = true exactly when the token      *)
(* resolves to a patient whose patientId and dateOfBirth equal the         *)
(* submitted ones and whose name equals the submitted name ignoring case;  *)
(* every other request with all four fields present is answered 401.       *)
(* Stated as written (C20_VerifiedIffMatch), and with the condition the    *)
(* handler adds, that all four submitted fields are non-empty              *)
(* (C20_VerifiedIffPresentAndMatch).                                       *)
(***************************************************************************)
CaseClasses == {{"Ann", "ANN", "ann"}, {"Bob", "BOB", "bob"}, {""}}

SameIgnoringCase(a, b) == \E class \in CaseClasses : a \in class /\ b \in class

AllPresent(request) ==
  /\ Len(request.token) > 0
  /\ request.patientId # ""
  /\ request.name # ""
  /\ request.dateOfBirth # ""

IdentityMatches(request) ==
  \E i \in DOMAIN patients :
     /\ patients[i].tokenLookupHash = [hmac |-> request.token]
     /\ patients[i].accessToken = [bcrypt |-> request.token]
     /\ patients[i].patientId = request.patientId
     /\ SameIgnoringCase(patients[i].name, request.name)
     /\ patients[i].dateOfBirth = request.dateOfBirth

AnswersVerified(response) ==
  /\ response.status = 200
  /\ response.body = [verified |-> TRUE, accessToken |-> response.request.token]

VerifyPatientAnswers ==
  portalResponse' # portalResponse /\ portalResponse'.endpoint = "verify-patient"

C21_NoCredentialFields ==
  (portalResponse.endpoint = "data" /\ portalResponse.status = 200) =>
     /\ "accessToken" \notin DOMAIN portalResponse.body.patient
     /\ "tokenLookupHash" \notin DOMAIN portalResponse.body.patient
     /\ \E i \in DOMAIN Roster :
           /\ Roster[i].token = portalResponse.request.token
           /\ Roster[i].id = portalResponse.body.patient.id

(***************************************************************************)
(* C22: POST /api/fairness/update-ground-truth answers 400 to a request    *)
(* with a missing field or a label outside {Benign, Malignant, Rash,       *)
(* Infection}, 404 to a request for an unknown analysis, and changes no    *)
(* analysis in both cases; otherwise it stores the label on that analysis  *)
(* and on no other; and every stored groundTruthLabel is null or one of    *)
(* the four labels.                                                        *)
(***************************************************************************)
GroundTruthVocabulary == {"Benign", "Malignant", "Rash", "Infection"}

MissingField(request) ==
  \/ request.analysisId = 0
  \/ request.groundTruthLabel = ""
  \/ request.groundTruthSource = ""

UpdateAnswers == updateResponse' # updateResponse

C22_LabelValidated ==
  [][UpdateAnswers =>
       LET request == updateResponse'.request
           rejected == \/ MissingField(request)
                       \/ request.groundTruthLabel \notin GroundTruthVocabulary
           unknown == request.analysisId \notin DOMAIN analyses
       IN  /\ rejected => updateResponse'.status = 400 /\ analyses' = analyses
           /\ (~rejected /\ unknown) =>
                 updateResponse'.status = 404 /\ analyses' = analyses
           /\ (~rejected /\ ~unknown) =>
                 /\ updateResponse'.status = 200
                 /\ Len(analyses') = Len(analyses)
                 /\ analyses'[request.analysisId].groundTruthLabel
                       = request.groundTruthLabel
                 /\ \A i \in DOMAIN analyses :
                       i # request.analysisId => analyses'[i] = analyses[i]
           /\ \A i \in DOMAIN analyses' :
                 \/ analyses'[i].groundTruthLabel = NULL
                 \/ analyses'[i].groundTruthLabel \in GroundTruthVocabulary]_vars

C22_Witness ==
  /\ updateResponse.status = 400
  /\ updateResponse.request.analysisId = 1
  /\ updateResponse.request.groundTruthLabel = "Mole"
  /\ updateResponse.request.groundTruthSource = "biopsy"
  /\ Len(analyses) = 2
  /\ analyses[1].groundTruthLabel = "Rash"
  /\ analyses[2].groundTruthLabel = NULL

(***************************************************************************)
(* C23: for every value of the random bytes the token of                   *)
(* generateAccessToken has 14 characters, a hyphen at positions 5 and 10   *)
(* and elsewhere a character of the 32-character alphabet without 0, O, 1  *)
(* and I, and isValidTokenFormat accepts it.                               *)
(***************************************************************************)
UnambiguousCharacters ==
  {"A", "B", "C", "D", "E", "F", "G", "H", "J", "K", "L", "M", "N", "P", "Q", "R",
   "S", "T", "U", "V", "W", "X", "Y", "Z", "2", "3", "4", "5", "6", "7", "8", "9"}

C23_TokenFormat ==
  /\ Cardinality(UnambiguousCharacters) = 32
  /\ tokenGen.pc \in {"generated", "validated"} =>
        /\ Len(tokenGen.token) = 14
        /\ \A k \in 1..14 :
              IF k \in {5, 10}
              THEN tokenGen.token[k] = "-"
              ELSE tokenGen.token[k] \in UnambiguousCharacters
  /\ tokenGen.pc = "validated" => tokenGen.valid

C23_Witness ==
  /\ tokenGen.pc = "validated"
  /\ tokenGen.valid
  /\ tokenGen.randomBytes[2][3] = 255
  /\ tokenGen.randomBytes[1][1] = 0
  /\ tokenGen.token[8] = "9"
  /\ tokenGen.token[1] = "A"

(***************************************************************************)
(* C24: no two patient records share a patientId, and a POST /api/patients *)
(* request whose patientId is already in the table when it is answered     *)
(* gets 400 and adds no patient record, also when requests with the same   *)
(* patientId run side by side.                                             *)
(***************************************************************************)
PatientIdTaken(patientId) ==
  \E i \in DOMAIN patients : patients[i].patientId = patientId

RegistrationAnswered(r) ==
  registrations'[r] # registrations[r] /\ registrations'[r].pc = "done"

C24_UniquePatientId ==
  [][/\ \A i, j \in DOMAIN patients' :
           i # j => patients'[i].patientId # patients'[j].patientId
     /\ \A r \in RegistrationRequests :
           (RegistrationAnswered(r) /\ PatientIdTaken(registrations'[r].body.patientId))
              => registrations'[r].status = 400 /\ patients' = patients]_vars

C24_Witness ==
  /\ registrations[1].pc = "done"
  /\ registrations[1].status = 200
  /\ registrations[1].body.patientId = "P-1"
  /\ registrations[2].pc = "done"
  /\ registrations[2].status = 400
  /\ registrations[2].body.patientId = "P-1"
  /\ registrations[2].message # "Patient ID already exists"
  /\ Len(patients) = 1

PercentInteger(x) == x.d = 1 /\ 0 <= x.n /\ x.n <= 100

SameLetter(a, b) ==
  \/ a = b
  \/ \E k \in DOMAIN LowerLetters : {a, b} = {LowerLetters[k], UpperLetters[k]}

SpellsIgnoringCase(s, word) ==
  Len(s) = Len(word) /\ \A i \in DOMAIN s : SameLetter(s[i], word[i])

ClassificationVocabulary ==
  {<<"B", "e", "n", "i", "g", "n">>,
   <<"M", "a", "l", "i", "g", "n", "a", "n", "t">>,
   <<"R", "a", "s", "h">>,
   <<"I", "n", "f", "e", "c", "t", "i", "o", "n">>}

(* The answer names a class of the vocabulary, in whatever case. *)
Normalisable(answer) ==
  /\ answer.type = "object"
  /\ answer.classification.type = "string"
  /\ \E word \in ClassificationVocabulary :
        SpellsIgnoringCase(answer.classification.str, word)

(* The request was answered after the classifier had been asked. *)
ClassifierAsked ==
  /\ lesionAnalysis.status # 0
  /\ lesionAnalysis.request.file \notin {NULL, ""}
  /\ lesionAnalysis.request.location # ""
  /\ \E i \in DOMAIN patients : patients[i].id = lesionAnalysis.request.patientId

(* C26: every analysis persisted through POST /api/analyze-lesion has a    *)
(* classification of the vocabulary {Benign, Malignant, Rash, Infection},  *)
(* and its confidence and its four class scores are integers in [0, 100],  *)
(* whatever the classifier answered; an answer that cannot be normalised   *)
(* to the vocabulary is rejected with an error and persists no analysis.   *)
C26_PersistedAnalysisNormalised ==
  /\ \A i \in DOMAIN analyses :
        /\ analyses[i].classification \in ClassificationVocabulary
        /\ PercentInteger(analyses[i].confidence)
        /\ PercentInteger(analyses[i].benignScore)
        /\ PercentInteger(analyses[i].malignantScore)
        /\ PercentInteger(analyses[i].rashScore)
        /\ PercentInteger(analyses[i].infectionScore)
  /\ (ClassifierAsked /\ ~Normalisable(lesionAnalysis.answer))
        => lesionAnalysis.status = 500 /\ analyses = <<>>

(* An answer "benign" with confidence 101 and the other scores 250 was     *)
(* persisted.                                                              *)
C26_Witness ==
  /\ lesionAnalysis.status = 200
  /\ Len(analyses) = 1
  /\ lesionAnalysis.answer.classification.str # analyses[1].classification
  /\ lesionAnalysis.answer.confidence = JsonNumber(I(101))
  /\ lesionAnalysis.answer.rashScore = JsonNumber(I(250))

(* An answer that cannot be normalised was rejected. *)
C26_Rejected ==
  /\ ClassifierAsked
  /\ ~Normalisable(lesionAnalysis.answer)
  /\ lesionAnalysis.status = 500

(* A score that is no number: the answer is rejected by the insert schema  *)
(* after the lesion has been inserted.                                     *)
C26_ScoreRejected ==
  /\ ClassifierAsked
  /\ Normalisable(lesionAnalysis.answer)
  /\ lesionAnalysis.status = 500
  /\ lesions # <<>>
  /\ analyses = <<>>

====
